---- MODULE Spec2Model ----
(***************************************************************************)
(* A model of the MIDI decoding core of medianmpc:                         *)
(*   - MidiDocument.fromBuffer's per-track note pairing (midi-utils.js),   *)
(*   - the variable-length-quantity codec (midi-parser.js, midi-writer.js),*)
(*   - parseMidi's chunk walk and parseTrack (midi-parser.js),             *)
(*   - MPCConverter's conversion and export (mpc-converter.js),            *)
(*   - the load state of MidiConverterApp (app.js, file-widget.js),        *)
(*   - MidiPlayer's playTrack and stopTrack (midi-player.js).              *)
(* Each part has its own specification over its own group of variables;    *)
(* the other groups stay at their idle values.                             *)
(***************************************************************************)
EXTENDS Integers, Sequences, FiniteSets, TLC

VARIABLES
    \* ---- MidiDocument.fromBuffer, one track (midi-utils.js 303-442) ----
    events,             \* trackData.event: the events iterated so far
    currentTime,        \* let currentTime
    activeNotes,        \* Map noteKey -> {time, velocity, midi, channel}
    programByChannel,   \* Map channel -> program number
    channelNoteCounts,  \* Map channel -> count of real note-ons
    primaryChannel,     \* let primaryChannel (NULL until set)
    instrumentProgram,  \* let instrumentProgram (NULL until set)
    notes,              \* const notes = []
    trackChannel,       \* the channel field of the returned track
    fbPc,               \* "events": in the forEach; "done": track returned
    \* ---- the variable-length codec (midi-parser.js 261-278, midi-writer.js) ----
    vlData,             \* the bytes of the DataView read and written
    vlOffset,           \* the offset both functions are called with
    vlInput,            \* the value handed to writeVariableLength (NULL: none)
    vlWritten,          \* what writeVariableLength returned (NULL: not called)
    vlResult,           \* what readVariableLength returned or that it threw
    vlPc,               \* "ready", "encoded", "writeThrew", "decoded"
    \* ---- parseMidi (midi-parser.js 6-59) ----
    pmBuffer,           \* the bytes of the ArrayBuffer, or NullBuffer
    pmOffset,           \* let offset
    pmHeader,           \* const header (NoHeader before parseHeader returns)
    pmTracks,           \* const tracks
    pmTrackCalls,       \* how many times parseTrack has been called
    pmError,            \* the error thrown to the caller ("" : none)
    pmPc,               \* "start", "chunks", "returned", "threw"
    \* ---- MPCConverter (mpc-converter.js 8-243) ----
    midi,               \* this.midi: the MidiDocument {ticksPerQuarter, tracks}
    lowTicks,           \* this.lowTicks
    highTicks,          \* this.highTicks
    cvArgs,             \* the arguments of the latest convertTrackToMPC call
    pattern,            \* what that call returned (NoPattern: nothing)
    exported,           \* what exportMPCPattern returned for that pattern
    cvError,            \* the error that call threw ("" : none)
    rangeNotes,         \* what the latest track.getNotesInRange call returned
    cvPc,               \* the latest call: "constructed", "bounded",
                        \* "filtered", "converted", "threw", "exported"
    \* ---- parseTrack, one iteration at a time (midi-parser.js 99-236) ----
    ptSource,           \* the events the track's bytes were written from
    ptData,             \* the bytes of the DataView handed to parseTrack
    ptSt,               \* its locals: offset, currentTime, runningStatus,
                        \* activeNotes, notes, events; state is "loop",
                        \* "done" (break), "threw", "returned"
    \* ---- MidiConverterApp and its FileWidget (app.js, file-widget.js) ----
    appState,           \* this.state: isLoading, error, midiDocument, converter
    appReaders,         \* the FileReaders whose read has not ended yet
    appSelections,      \* how many selections processFiles has handled
    appLast,            \* the latest handler: whether a file's load failed
                        \* in it, and the file it loaded (0: none)
    \* ---- MidiPlayer (midi-player.js 114-225) ----
    player,             \* this.synth, this.timeoutId, this.state.isPlaying
    tone,               \* the synths not disposed and the timers not fired
                        \* or cleared
    plSuspended,        \* the playTrack calls waiting at await Tone.start()
    plCalls,            \* how many times playTrack has been called
    plCreated,          \* how many synths (and timers) have been created
    plLast              \* the latest method that ran: "playTrack", "stopTrack"

fbVars == <<events, currentTime, activeNotes, programByChannel,
            channelNoteCounts, primaryChannel, instrumentProgram, notes,
            trackChannel, fbPc>>

vlVars == <<vlData, vlOffset, vlInput, vlWritten, vlResult, vlPc>>

pmVars == <<pmBuffer, pmOffset, pmHeader, pmTracks, pmTrackCalls, pmError, pmPc>>

cvVars == <<midi, lowTicks, highTicks, cvArgs, pattern, exported, cvError,
            rangeNotes, cvPc>>

ptVars == <<ptSource, ptData, ptSt>>

appVars == <<appState, appReaders, appSelections, appLast>>

plVars == <<player, tone, plSuspended, plCalls, plCreated, plLast>>

vars == <<fbVars, vlVars, pmVars, cvVars, ptVars, appVars, plVars>>

\* What each part leaves alone
notFbVars == <<vlVars, pmVars, cvVars, ptVars, appVars, plVars>>

notVlVars == <<fbVars, pmVars, cvVars, ptVars, appVars, plVars>>

notPmVars == <<fbVars, vlVars, cvVars, ptVars, appVars, plVars>>

notCvVars == <<fbVars, vlVars, pmVars, ptVars, appVars, plVars>>

notPtVars == <<fbVars, vlVars, pmVars, cvVars, appVars, plVars>>

notWalkVars == <<fbVars, vlVars, cvVars, appVars, plVars>>

notAppVars == <<fbVars, vlVars, pmVars, cvVars, ptVars, plVars>>

notPlVars == <<fbVars, vlVars, pmVars, cvVars, ptVars, appVars>>

----------------------------------------------------------------------------
(* Bounds of the model *)

MaxEvents == 3

\* JavaScript null
NULL == -1

\* event.channel of an event that carries no channel (a meta event)
NoChannel == -2

\* The buffer argument of parseMidi when it is null: no sequence of bytes
NullBuffer == <<NULL>>

\* const header before parseHeader has returned
NoHeader == [format |-> NULL, trackCount |-> NULL, timeDivision |-> NULL,
             ticksPerQuarter |-> NULL]

\* No call of readVariableLength has returned or thrown yet
NoVlResult == [threw |-> FALSE, value |-> NULL, bytes |-> NULL]

\* No call of convertTrackToMPC has been made yet
NoArgs == [trackNumber |-> NULL, startTime |-> NULL, endTime |-> NULL,
           baseTicks |-> NULL]

\* No pattern object: convertTrackToMPC has not returned one
NoPattern == [defined |-> FALSE, events |-> <<>>]

\* The track's bytes were not written from a list of events
NoSource == [events |-> <<>>, running |-> FALSE, cut |-> 0]

\* parseTrack is not running
NoTrackState == [offset |-> 0, currentTime |-> 0, runningStatus |-> 0,
                 activeNotes |-> <<>>, notes |-> <<>>, events |-> <<>>,
                 state |-> "idle"]

\* this.state of MidiConverterApp as the constructor sets it (app.js:16-24);
\* error "null" is null, midiDocument and converter 0 are null
NoAppState == [isLoading |-> FALSE, error |-> "null", midiDocument |-> 0,
               converter |-> 0]

\* No handler of the application has run
NoOutcome == [failed |-> FALSE, loaded |-> 0]

\* The MidiPlayer as its constructor leaves it (midi-player.js:115-122);
\* synth and timeoutId 0 are null
NoPlayer == [synth |-> 0, timeoutId |-> 0, isPlaying |-> FALSE]

\* No synth is live and no timer is pending
NoTone == [synths |-> {}, timers |-> {}]

\* getNotesInRange has not been called with the latest arguments
NoRangeNotes == [returned |-> FALSE, notes |-> <<>>]

\* exportMPCPattern has not been called for the current pattern
NoExport == [returned |-> FALSE, head |-> <<>>, events |-> <<>>, tail |-> <<>>]

Channels   == {0, 1}
Pitches    == {60, 61}
Velocities == {0, 100}
Deltas     == {0, 3}
Programs   == {5}

\* The (channel, pitch) pairs of the note events: two channels with the same
\* pitch, and two pitches on the same channel
NoteKeys == {<<0, 60>>, <<1, 60>>, <<0, 61>>}

----------------------------------------------------------------------------
(* A part that is not running *)

IdleApp ==
    /\ appState = NoAppState
    /\ appReaders = {}
    /\ appSelections = NULL
    /\ appLast = NoOutcome

IdlePlayer ==
    /\ player = NoPlayer
    /\ tone = NoTone
    /\ plSuspended = 0
    /\ plCalls = NULL
    /\ plCreated = 0
    /\ plLast = "idle"

IdleFromBuffer ==
    /\ events = <<>>
    /\ currentTime = 0
    /\ activeNotes = <<>>
    /\ programByChannel = <<>>
    /\ channelNoteCounts = <<>>
    /\ primaryChannel = NULL
    /\ instrumentProgram = NULL
    /\ notes = <<>>
    /\ trackChannel = NULL
    /\ fbPc = "idle"

IdleVlq ==
    /\ vlData = <<>>
    /\ vlOffset = 0
    /\ vlInput = NULL
    /\ vlWritten = NULL
    /\ vlResult = NoVlResult
    /\ vlPc = "idle"

IdleParseMidi ==
    /\ pmBuffer = <<>>
    /\ pmOffset = 0
    /\ pmHeader = NoHeader
    /\ pmTracks = <<>>
    /\ pmTrackCalls = 0
    /\ pmError = ""
    /\ pmPc = "idle"

IdleParseTrack ==
    /\ ptSource = NoSource
    /\ ptData = <<>>
    /\ ptSt = NoTrackState

IdleConvert ==
    /\ midi = [ticksPerQuarter |-> NULL, tracks |-> <<>>]
    /\ lowTicks = 0
    /\ highTicks = 0
    /\ cvArgs = NoArgs
    /\ pattern = NoPattern
    /\ exported = NoExport
    /\ cvError = ""
    /\ rangeNotes = NoRangeNotes
    /\ cvPc = "idle"

----------------------------------------------------------------------------
(* JavaScript Map: entries <<key, value>> kept in insertion order *)

MapHas(m, k) == \E i \in 1..Len(m) : m[i][1] = k

MapGet(m, k) == m[CHOOSE i \in 1..Len(m) : m[i][1] = k][2]

MapSet(m, k, v) ==
    IF MapHas(m, k)
    THEN [i \in 1..Len(m) |-> IF m[i][1] = k THEN <<k, v>> ELSE m[i]]
    ELSE Append(m, <<k, v>>)

MapDelete(m, k) == SelectSeq(m, LAMBDA en : en[1] # k)

----------------------------------------------------------------------------
(* The events midi-parser-js hands to fromBuffer *)

NoteOnEvents ==
    {e \in [type : {9}, channel : Channels, data : Pitches \X Velocities,
            deltaTime : Deltas] : <<e.channel, e.data[1]>> \in NoteKeys}

NoteOffEvents ==
    {e \in [type : {8}, channel : Channels, data : Pitches \X {64},
            deltaTime : Deltas] : <<e.channel, e.data[1]>> \in NoteKeys}

ProgramChangeEvents ==
    [type : {12}, channel : Channels, data : {<<p>> : p \in Programs},
     deltaTime : Deltas]

MetaEvents ==
    [type : {255}, channel : {NoChannel}, data : {<<>>}, deltaTime : Deltas]

\* const channel = typeof event.channel === 'number' ? event.channel : 0
ChannelOf(event) == IF event.channel \in 0..15 THEN event.channel ELSE 0

\* A key that leaves the channel out
NoteKey_pitchOnly(channel, pitch) == <<0, pitch>>

\* const noteKey = `${channel}:${pitch}` (injective in channel and pitch)
NoteKey(channel, pitch) == <<channel, pitch>>

\* A test that sends every Note-On down the on path
IsVelocityZero_never(velocity) == FALSE

\* if (velocity === 0)
IsVelocityZero(velocity) == velocity = 0

\* A note whose duration is subtracted the wrong way round
ClosedNote_reversed(pitch, noteStart, time) ==
    [midi |-> pitch, velocity |-> noteStart.velocity,
     time |-> noteStart.time, duration |-> noteStart.time - time,
     ticks |-> noteStart.time, durationTicks |-> noteStart.time - time,
     channel |-> noteStart.channel]

\* The note pushed when an off-event finds noteStart pending
ClosedNote(pitch, noteStart, time) ==
    [midi |-> pitch, velocity |-> noteStart.velocity,
     time |-> noteStart.time, duration |-> time - noteStart.time,
     ticks |-> noteStart.time, durationTicks |-> time - noteStart.time,
     channel |-> noteStart.channel]

\* An off path without the if (noteStart) guard
CloseNote_unguarded(ns, active, noteKey, pitch, time) ==
    IF MapHas(active, noteKey)
    THEN [notes |-> Append(ns, ClosedNote(pitch, MapGet(active, noteKey), time)),
          activeNotes |-> MapDelete(active, noteKey)]
    ELSE [notes |-> Append(ns, ClosedNote(pitch,
                        [time |-> time, velocity |-> 64, midi |-> pitch,
                         channel |-> noteKey[1]], time)),
          activeNotes |-> active]

\* An off path without activeNotes.delete(noteKey)
CloseNote_noDelete(ns, active, noteKey, pitch, time) ==
    IF MapHas(active, noteKey)
    THEN [notes |-> Append(ns, ClosedNote(pitch, MapGet(active, noteKey), time)),
          activeNotes |-> active]
    ELSE [notes |-> ns, activeNotes |-> active]

\* The off path: activeNotes.get, if (noteStart) { notes.push; delete }
\* Result: the new notes and the new activeNotes.
CloseNote(ns, active, noteKey, pitch, time) ==
    IF MapHas(active, noteKey)
    THEN [notes |-> Append(ns, ClosedNote(pitch, MapGet(active, noteKey), time)),
          activeNotes |-> MapDelete(active, noteKey)]
    ELSE [notes |-> ns, activeNotes |-> active]

\* An end of track that leaves the pending notes out
ForceClosedNotes_none(active) == <<>>

\* activeNotes.forEach(noteStart => notes.push({... duration: 0 ...}))
ForceClosedNotes(active) ==
    [i \in 1..Len(active) |->
        [midi |-> active[i][2].midi, velocity |-> active[i][2].velocity,
         time |-> active[i][2].time, duration |-> 0,
         ticks |-> active[i][2].time, durationTicks |-> 0,
         channel |-> active[i][2].channel]]

\* [...channelNoteCounts.entries()].sort((a, b) => b[1] - a[1])[0][0]
\* (a stable sort: the first entry, in insertion order, with the highest count)
MostUsedChannel(counts) ==
    LET i == CHOOSE i \in 1..Len(counts) :
                 /\ \A j \in 1..Len(counts) : counts[j][2] <= counts[i][2]
                 /\ \A j \in 1..(i - 1) : counts[j][2] < counts[i][2]
    IN counts[i][1]

----------------------------------------------------------------------------
(* MidiDocument.fromBuffer: the second events.forEach and the track's end *)

InitFromBuffer ==
    /\ events = <<>>
    /\ currentTime = 0
    /\ activeNotes = <<>>
    /\ programByChannel = <<>>
    /\ channelNoteCounts = <<>>
    /\ primaryChannel = NULL
    /\ instrumentProgram = NULL
    /\ notes = <<>>
    /\ trackChannel = NULL
    /\ fbPc = "events"
    /\ IdleVlq
    /\ IdleParseMidi
    /\ IdleConvert
    /\ IdleParseTrack
    /\ IdleApp
    /\ IdlePlayer

\* The callback is entered for one more event of the track
NextEvent(event) ==
    /\ fbPc = "events"
    /\ Len(events) < MaxEvents
    /\ events' = Append(events, event)
    /\ currentTime' = currentTime + event.deltaTime
    /\ UNCHANGED notFbVars

\* if (event.type === 12)
fromBuffer_ProgramChange ==
    \E event \in ProgramChangeEvents :
        /\ NextEvent(event)
        /\ LET channel == ChannelOf(event)
               programNumber == event.data[1]
           IN /\ programByChannel' = MapSet(programByChannel, channel, programNumber)
              /\ instrumentProgram' =
                    IF instrumentProgram = NULL THEN programNumber
                    ELSE instrumentProgram
              /\ primaryChannel' =
                    IF primaryChannel = NULL THEN channel ELSE primaryChannel
        /\ UNCHANGED <<activeNotes, channelNoteCounts, notes, trackChannel, fbPc>>

\* if (event.type === 9) with velocity === 0
fromBuffer_NoteOnVelocityZero ==
    \E event \in NoteOnEvents :
        /\ IsVelocityZero(event.data[2])
        /\ NextEvent(event)
        /\ LET channel == ChannelOf(event)
               pitch == event.data[1]
               closed == CloseNote(notes, activeNotes, NoteKey(channel, pitch),
                                   pitch, currentTime')
           IN /\ notes' = closed.notes
              /\ activeNotes' = closed.activeNotes
        /\ UNCHANGED <<programByChannel, channelNoteCounts, primaryChannel,
                       instrumentProgram, trackChannel, fbPc>>

\* if (event.type === 9), the else branch: a real note on
fromBuffer_NoteOn ==
    \E event \in NoteOnEvents :
        /\ ~IsVelocityZero(event.data[2])
        /\ NextEvent(event)
        /\ LET channel == ChannelOf(event)
               pitch == event.data[1]
               velocity == event.data[2]
               count == IF MapHas(channelNoteCounts, channel)
                        THEN MapGet(channelNoteCounts, channel) ELSE 0
           IN /\ activeNotes' =
                    MapSet(activeNotes, NoteKey(channel, pitch),
                           [time |-> currentTime', velocity |-> velocity,
                            midi |-> pitch, channel |-> channel])
              /\ primaryChannel' =
                    IF primaryChannel = NULL THEN channel ELSE primaryChannel
              /\ channelNoteCounts' = MapSet(channelNoteCounts, channel, count + 1)
        /\ UNCHANGED <<programByChannel, instrumentProgram, notes,
                       trackChannel, fbPc>>

\* else if (event.type === 8)
fromBuffer_NoteOff ==
    \E event \in NoteOffEvents :
        /\ NextEvent(event)
        /\ LET channel == ChannelOf(event)
               pitch == event.data[1]
               closed == CloseNote(notes, activeNotes, NoteKey(channel, pitch),
                                   pitch, currentTime')
           IN /\ notes' = closed.notes
              /\ activeNotes' = closed.activeNotes
        /\ UNCHANGED <<programByChannel, channelNoteCounts, primaryChannel,
                       instrumentProgram, trackChannel, fbPc>>

\* any other event type: only currentTime advances
fromBuffer_OtherEvent ==
    \E event \in MetaEvents :
        /\ NextEvent(event)
        /\ UNCHANGED <<activeNotes, programByChannel, channelNoteCounts,
                       primaryChannel, instrumentProgram, notes, trackChannel,
                       fbPc>>

\* After the forEach: force-close, resolve the primary channel, return the track
fromBuffer_EndOfTrack ==
    /\ fbPc = "events"
    /\ notes' = notes \o ForceClosedNotes(activeNotes)
    /\ primaryChannel' =
          IF primaryChannel = NULL /\ Len(channelNoteCounts) > 0
          THEN MostUsedChannel(channelNoteCounts)
          ELSE primaryChannel
    /\ trackChannel' = IF primaryChannel' # NULL THEN primaryChannel' ELSE 0
    /\ fbPc' = "done"
    /\ UNCHANGED <<events, currentTime, activeNotes, programByChannel,
                   channelNoteCounts, instrumentProgram>>
    /\ UNCHANGED notFbVars

NextFromBuffer ==
    \/ fromBuffer_ProgramChange
    \/ fromBuffer_NoteOnVelocityZero
    \/ fromBuffer_NoteOn
    \/ fromBuffer_NoteOff
    \/ fromBuffer_OtherEvent
    \/ fromBuffer_EndOfTrack

SpecFromBuffer == InitFromBuffer /\ [][NextFromBuffer]_vars

----------------------------------------------------------------------------
(* Properties of MidiDocument.fromBuffer, stated over the events iterated *)

Front(s) == SubSeq(s, 1, Len(s) - 1)

Last(s) == s[Len(s)]

IsRealOn(e) == e.type = 9 /\ e.data[2] > 0

IsOff(e) == e.type = 8 \/ (e.type = 9 /\ e.data[2] = 0)

IsNoteEvent(e) == e.type = 8 \/ e.type = 9

\* Same channel and same pitch
SameKey(e, f) == e.channel = f.channel /\ e.data[1] = f.data[1]

\* The absolute tick of the j-th event
RECURSIVE TickAt(_, _)
TickAt(evs, j) == IF j = 0 THEN 0 ELSE TickAt(evs, j - 1) + evs[j].deltaTime

\* The on-events still pending at the end: no later note event on their key
PendingAtEnd(evs) ==
    {j \in 1..Len(evs) :
        /\ IsRealOn(evs[j])
        /\ \A i \in (j + 1)..Len(evs) :
              ~(IsNoteEvent(evs[i]) /\ SameKey(evs[i], evs[j]))}

\* The off-events that found a pending note: an on-event on their key comes
\* before them with no off-event on that key in between
MatchedOffs(evs) ==
    {i \in 1..Len(evs) :
        /\ IsOff(evs[i])
        /\ \E j \in 1..(i - 1) :
              /\ IsRealOn(evs[j]) /\ SameKey(evs[j], evs[i])
              /\ \A m \in (j + 1)..(i - 1) :
                    ~(IsOff(evs[m]) /\ SameKey(evs[m], evs[i]))}

\* The pending entry, if any, opened on the channel and pitch of event e
PendingFor(active, e) ==
    {i \in 1..Len(active) :
        active[i][2].channel = e.channel /\ active[i][2].midi = e.data[1]}

\* The step just taken iterated one more event, an off-event
OffEventStep ==
    /\ fbPc = "events"
    /\ Len(events') = Len(events) + 1
    /\ IsOff(Last(events'))

\* C1: once the track is decoded, every Note-On (velocity > 0) still pending at
\* the end of the track is a stored note with duration 0 that starts at its
\* on-tick; no entry of the pending map is left unreported.
C1_NoOpenNoteLeft ==
    fbPc = "done" =>
        /\ \A j \in PendingAtEnd(events) :
              \E n \in 1..Len(notes) :
                  /\ notes[n].midi = events[j].data[1]
                  /\ notes[n].channel = events[j].channel
                  /\ notes[n].velocity = events[j].data[2]
                  /\ notes[n].time = TickAt(events, j)
                  /\ notes[n].duration = 0
        /\ \A i \in 1..Len(activeNotes) :
              \E n \in 1..Len(notes) :
                  /\ notes[n].midi = activeNotes[i][2].midi
                  /\ notes[n].channel = activeNotes[i][2].channel
                  /\ notes[n].time = activeNotes[i][2].time
                  /\ notes[n].duration = 0

\* Two notes, opened at different ticks, were force-closed at the end
C1_Witness ==
    /\ fbPc = "done"
    /\ Cardinality(PendingAtEnd(events)) = 2
    /\ Len(notes) = 2
    /\ notes[1].time # notes[2].time
    /\ notes[1].duration = 0 /\ notes[2].duration = 0

\* C2: a Note-On with velocity 0 never opens a pending note and never becomes a
\* stored note: no stored or pending note has velocity 0, and a track of only
\* Note-On(velocity 0) events decodes to the empty note list, as a track
\* without note events does.
C2_VelocityZeroNeverStored ==
    /\ \A n \in 1..Len(notes) : notes[n].velocity # 0
    /\ \A i \in 1..Len(activeNotes) : activeNotes[i][2].velocity # 0
    /\ (fbPc = "done" /\ \A i \in 1..Len(events) :
                            events[i].type = 9 /\ events[i].data[2] = 0)
          => notes = <<>> /\ activeNotes = <<>>
    /\ (fbPc = "done" /\ \A i \in 1..Len(events) : ~IsNoteEvent(events[i]))
          => notes = <<>> /\ activeNotes = <<>>

\* A decoded track of two or more Note-On(velocity 0) events and nothing else
C2_Witness ==
    /\ fbPc = "done"
    /\ Len(events) >= 2
    /\ \A i \in 1..Len(events) : events[i].type = 9 /\ events[i].data[2] = 0
    /\ notes = <<>>

\* C3: an off-event on channel c and pitch p closes only the pending note
\* opened on channel c with pitch p; every pending note of another channel or
\* another pitch stays pending, unaltered.
C3_PairingKey ==
    [][OffEventStep =>
        LET e == Last(events')
        IN /\ \A i \in 1..Len(activeNotes) :
                 i \notin PendingFor(activeNotes, e) =>
                    \E j \in 1..Len(activeNotes') :
                        activeNotes'[j] = activeNotes[i]
           /\ \A j \in 1..Len(activeNotes') :
                 \E i \in 1..Len(activeNotes) : activeNotes[i] = activeNotes'[j]
           /\ PendingFor(activeNotes', e) = {}
           /\ IF PendingFor(activeNotes, e) = {}
              THEN notes' = notes
              ELSE /\ Len(notes') = Len(notes) + 1
                   /\ Front(notes') = notes
                   /\ Last(notes').channel = e.channel
                   /\ Last(notes').midi = e.data[1]
                   /\ \E i \in PendingFor(activeNotes, e) :
                         Last(notes').time = activeNotes[i][2].time
    ]_vars

\* An off-event closed the note of its key while a note of the same pitch on
\* another channel and a note of another pitch on the same channel stay pending
C3_Witness ==
    /\ fbPc = "events"
    /\ Len(events) >= 3
    /\ IsOff(Last(events))
    /\ Len(notes) = 1
    /\ notes[1].channel = Last(events).channel
    /\ notes[1].midi = Last(events).data[1]
    /\ \E i \in 1..Len(activeNotes) :
          \/ /\ activeNotes[i][2].midi = Last(events).data[1]
             /\ activeNotes[i][2].channel # Last(events).channel
          \/ /\ activeNotes[i][2].midi # Last(events).data[1]
             /\ activeNotes[i][2].channel = Last(events).channel

\* The on-events of key e not yet matched, oldest first, when every off-event
\* closes the oldest unmatched on-event of its key
RECURSIVE FifoQueue(_, _)
FifoQueue(evs, e) ==
    IF evs = <<>> THEN <<>>
    ELSE LET q == FifoQueue(Front(evs), e)
             f == Last(evs)
         IN IF IsRealOn(f) /\ SameKey(f, e) THEN Append(q, Len(evs))
            ELSE IF IsOff(f) /\ SameKey(f, e) /\ q # <<>> THEN Tail(q)
            ELSE q

\* C4: a second Note-On for a key that has a pending note does not overwrite
\* it: the next off-event of the key closes the oldest unmatched on-event, so
\* the note it emits has the start tick and velocity of that on-event.
C4_FifoOldestFirst ==
    (fbPc = "events" /\ Len(events) > 0 /\ IsOff(Last(events))) =>
        LET q == FifoQueue(Front(events), Last(events))
        IN q # <<>> =>
              /\ Len(notes) > 0
              /\ Last(notes).midi = Last(events).data[1]
              /\ Last(notes).time = TickAt(events, q[1])
              /\ Last(notes).velocity = events[q[1]].data[2]

\* C5: an off-event for a key with no pending note is dropped: the note list,
\* the pending map and everything else stay as they were, the decoding goes
\* on, and only the tick counter advances by the event's delta-time.
C5_UnmatchedOffDropped ==
    [][(OffEventStep /\ PendingFor(activeNotes, Last(events')) = {}) =>
        /\ notes' = notes
        /\ activeNotes' = activeNotes
        /\ currentTime' = currentTime + Last(events').deltaTime
        /\ fbPc' = "events"
        /\ UNCHANGED <<programByChannel, channelNoteCounts, primaryChannel,
                       instrumentProgram, trackChannel>>
    ]_vars

\* An off-event was dropped while a note of another key was pending
C5_Witness ==
    /\ fbPc = "events"
    /\ Len(events) = 2
    /\ IsRealOn(events[1])
    /\ IsOff(events[2])
    /\ ~SameKey(events[1], events[2])
    /\ notes = <<>>
    /\ Len(activeNotes) = 1
    /\ currentTime = 6

\* C6: with delta-times >= 0 the tick counter never decreases from one event
\* to the next, and every stored note has start >= 0 and duration >= 0.
C6_TicksMonotonicNotesNonNegative ==
    /\ [][currentTime' >= currentTime]_vars
    /\ [](\A n \in 1..Len(notes) : notes[n].time >= 0 /\ notes[n].duration >= 0)

\* A note that starts after tick 0 and lasts, beside a force-closed one
C6_Witness ==
    /\ fbPc = "done"
    /\ \E n \in 1..Len(notes) : notes[n].time > 0 /\ notes[n].duration > 0
    /\ \E n \in 1..Len(notes) : notes[n].duration = 0

\* C7: the number of stored notes of a decoded track is the number of
\* off-events that found a pending note for their key plus the number of
\* pending notes force-closed at the end of the track.
C7_NoteCount ==
    fbPc = "done" =>
        Len(notes) = Cardinality(MatchedOffs(events))
                        + Cardinality(PendingAtEnd(events))

\* A matched pair, an unmatched off-event and a force-closed note in one track
C7_Witness ==
    /\ fbPc = "done"
    /\ Cardinality(MatchedOffs(events)) = 1
    /\ Cardinality(PendingAtEnd(events)) = 1
    /\ Len(events) = 3
    /\ Len(notes) = 2

----------------------------------------------------------------------------
(* The variable-length-quantity codec *)

MaxBufLen == 5

\* 0x05, 0x81, 0xFF: a byte with the continuation bit clear, two with it set
ByteSamples == {5, 129, 255}

VlOffsets == {0, 1}

\* The values encoded: the ends of each byte count up to 0x0FFFFFFF, and the
\* first value that needs a fifth byte
VlValues == {0, 1, 127, 128, 300, 16383, 16384, 2097151, 2097152,
             268435455, 268435456}

RawBuffers == UNION {[1..n -> ByteSamples] : n \in 0..MaxBufLen}

Reverse(s) == [i \in 1..Len(s) |-> s[Len(s) + 1 - i]]

\* The do-while of readVariableLength, entered with value and bytes so far;
\* data.getUint8(i) is data[i + 1]. At most four bytes are read, so value is
\* below 2^21 before the last shift and (value << 7) | (byte & 0x7F) stays
\* below 2^28: the 32-bit shift never wraps.
RECURSIVE readVariableLength_loop(_, _, _, _)
readVariableLength_loop(data, offset, value, bytes) ==
    IF offset + bytes >= Len(data)
    THEN [threw |-> TRUE, value |-> value, bytes |-> bytes]
    ELSE LET byte == data[offset + bytes + 1]
             value2 == value * 128 + (byte % 128)
             bytes2 == bytes + 1
         IN IF byte >= 128 /\ bytes2 < 4
            THEN readVariableLength_loop(data, offset, value2, bytes2)
            ELSE [threw |-> FALSE, value |-> value2, bytes |-> bytes2]

readVariableLength(data, offset) == readVariableLength_loop(data, offset, 0, 0)

\* The while loop of writeVariableLength: the bytes pushed after the first,
\* for a value in 0 .. 2^31 - 1 (value & 0x7F is value % 128, value >>= 7 is
\* value \div 128)
RECURSIVE writeVariableLength_loop(_, _)
writeVariableLength_loop(bytes, value) ==
    IF value > 0
    THEN writeVariableLength_loop(Append(bytes, (value % 128) + 128),
                                  value \div 128)
    ELSE bytes

\* An encoder that forgets bytes.reverse()
writeVariableLength_noReverse(view, offset, value) ==
    LET bytes == writeVariableLength_loop(<<value % 128>>, value \div 128)
    IN [view |-> [i \in 1..Len(view) |->
                    IF i - offset \in 1..Len(bytes) THEN bytes[i - offset]
                    ELSE view[i]],
        threw |-> offset + Len(bytes) > Len(view),
        length |-> Len(bytes)]

\* view.setUint8 throws a RangeError past the end of the view, after the
\* bytes before it have been written
writeVariableLength(view, offset, value) ==
    LET bytes == Reverse(writeVariableLength_loop(<<value % 128>>,
                                                  value \div 128))
    IN [view |-> [i \in 1..Len(view) |->
                    IF i - offset \in 1..Len(bytes) THEN bytes[i - offset]
                    ELSE view[i]],
        threw |-> offset + Len(bytes) > Len(view),
        length |-> Len(bytes)]

getVariableLengthSize(value) ==
    IF value < 128 THEN 1
    ELSE IF value < 16384 THEN 2
    ELSE IF value < 2097152 THEN 3
    ELSE 4

InitVlq ==
    /\ vlData \in RawBuffers
    /\ vlOffset \in VlOffsets
    /\ vlInput = NULL
    /\ vlWritten = NULL
    /\ vlResult = NoVlResult
    /\ vlPc = "ready"
    /\ IdleFromBuffer
    /\ IdleParseMidi
    /\ IdleConvert
    /\ IdleParseTrack
    /\ IdleApp
    /\ IdlePlayer

\* writeVariableLength(view, offset, value) is called on the buffer
Vlq_Encode ==
    /\ vlPc = "ready"
    /\ \E value \in VlValues :
          LET w == writeVariableLength(vlData, vlOffset, value)
          IN /\ vlData' = w.view
             /\ vlInput' = value
             /\ vlWritten' = IF w.threw THEN NULL ELSE w.length
             /\ vlPc' = IF w.threw THEN "writeThrew" ELSE "encoded"
    /\ UNCHANGED <<vlOffset, vlResult>>
    /\ UNCHANGED notVlVars

\* readVariableLength(data, offset) is called on the buffer, as it came or
\* as the encoder left it
Vlq_Decode ==
    /\ vlPc \in {"ready", "encoded"}
    /\ vlResult' = readVariableLength(vlData, vlOffset)
    /\ vlPc' = "decoded"
    /\ UNCHANGED <<vlData, vlOffset, vlInput, vlWritten>>
    /\ UNCHANGED notVlVars

NextVlq ==
    \/ Vlq_Encode
    \/ Vlq_Decode

SpecVlq == InitVlq /\ [][NextVlq]_vars

----------------------------------------------------------------------------
(* Properties of the codec *)

\* No byte with a clear continuation bit among the (at most four) bytes the
\* decoder can read from the offset on
NoTerminator(data, offset) ==
    \A i \in 1..4 : offset + i <= Len(data) => data[offset + i] >= 128

\* C8: readVariableLength throws whenever 4 bytes have been consumed and the
\* 4th still has its continuation bit set, and whenever the buffer ends before
\* a byte with a clear continuation bit; it returns no value for such input.
C8_UnterminatedVlqThrows ==
    (vlPc = "decoded" /\ NoTerminator(vlData, vlOffset)) => vlResult.threw

\* The least number of 7-bit groups that hold v
MinVlqBytes(v) == CHOOSE n \in 1..4 :
                     /\ v < 128 ^ n
                     /\ \A m \in 1..(n - 1) : v >= 128 ^ m

\* C9: for v in [0, 0x0FFFFFFF], decoding what the encoder wrote at the same
\* offset returns v and the number of bytes written, which is the minimal
\* count (1..4), the same as getVariableLengthSize(v), with the high bit set
\* on every byte but the last.
C9_VlqRoundTrip ==
    (vlPc = "decoded" /\ vlInput # NULL /\ vlInput \in 0..268435455) =>
        /\ ~vlResult.threw
        /\ vlResult.value = vlInput
        /\ vlResult.bytes = vlWritten
        /\ vlWritten \in 1..4
        /\ vlWritten = MinVlqBytes(vlInput)
        /\ vlWritten = getVariableLengthSize(vlInput)
        /\ \A i \in 1..vlWritten :
              (vlData[vlOffset + i] >= 128) <=> (i < vlWritten)

\* The largest value, 0x0FFFFFFF, written in four bytes at offset 1 and read back
C9_Witness ==
    /\ vlPc = "decoded"
    /\ vlInput = 268435455
    /\ vlOffset = 1
    /\ vlWritten = 4
    /\ vlResult = [threw |-> FALSE, value |-> 268435455, bytes |-> 4]

----------------------------------------------------------------------------
(* parseMidi: the chunk walk, the header and the track decoder *)

MaxChunks == 2

\* 'MThd', 'MTrk' and a tag that is neither ('RIFF'), as char codes
TagMThd == <<77, 84, 104, 100>>

TagMTrk == <<77, 84, 114, 107>>

TagOther == <<82, 73, 70, 70>>

\* view.getUint16(offset, false)
GetUint16(view, offset) == view[offset + 1] * 256 + view[offset + 2]

\* view.getUint32(offset, false). A value of 2^31 or more is read as
\* 2^31 - 1: it exceeds the length of every buffer here all the same.
GetUint32(view, offset) ==
    IF view[offset + 1] >= 128 THEN 2147483647
    ELSE ((view[offset + 1] * 256 + view[offset + 2]) * 256
            + view[offset + 3]) * 256 + view[offset + 4]

\* readChunk(view, offset): getUint8 and getUint32 throw a RangeError past the
\* end of the view, and so does new DataView(buffer, offset + 8, length)
readChunk(view, offset) ==
    IF offset + 8 > Len(view)
    THEN [threw |-> TRUE, type |-> <<>>, length |-> 0, data |-> <<>>]
    ELSE LET length == GetUint32(view, offset + 4)
         IN IF length > Len(view) - offset - 8
            THEN [threw |-> TRUE, type |-> <<>>, length |-> 0, data |-> <<>>]
            ELSE [threw |-> FALSE,
                  type |-> SubSeq(view, offset + 1, offset + 4),
                  length |-> length,
                  data |-> SubSeq(view, offset + 9, offset + 8 + length)]

\* parseHeader(data): getUint16 throws a RangeError on a body shorter than 6
parseHeader(data) ==
    IF Len(data) < 6
    THEN [threw |-> TRUE, header |-> NoHeader]
    ELSE LET timeDivision == GetUint16(data, 4)
         IN [threw |-> FALSE,
             header |->
               [format |-> GetUint16(data, 0),
                trackCount |-> GetUint16(data, 2),
                timeDivision |-> timeDivision,
                ticksPerQuarter |->
                    IF timeDivision >= 32768
                    THEN (-(timeDivision \div 256)) * (timeDivision % 256)
                    ELSE timeDivision]]

\* handleNoteOn: the key is `${pitch}`
handleNoteOn(pitch, velocity, time, active) ==
    MapSet(active, pitch,
           [pitch |-> pitch, velocity |-> velocity, startTime |-> time])

\* handleNoteOff: the new notes and the new activeNotes
handleNoteOff(pitch, time, active, ns) ==
    IF MapHas(active, pitch)
    THEN LET activeNote == MapGet(active, pitch)
             duration == time - activeNote.startTime
         IN [notes |-> Append(ns, [midi |-> pitch,
                                   velocity |-> activeNote.velocity,
                                   time |-> activeNote.startTime,
                                   duration |-> duration,
                                   ticks |-> activeNote.startTime,
                                   durationTicks |-> duration]),
             activeNotes |-> MapDelete(active, pitch)]
    ELSE [notes |-> ns, activeNotes |-> active]

\* The switch (eventType) of parseTrack, entered with offset after the status
\* byte: the offset, the pending and stored notes after it, the fields set on
\* the event, and whether readVariableLength threw
parseTrack_switch(data, offset, eventType, time, active, ns) ==
    LET same == [offset |-> offset, activeNotes |-> active, notes |-> ns,
                 data |-> <<>>, metaType |-> NULL, name |-> <<>>,
                 threw |-> FALSE]
    IN CASE eventType = 144 ->
              IF offset + 1 >= Len(data) THEN same
              ELSE LET pitch == data[offset + 1]
                       velocity == data[offset + 2]
                       off == handleNoteOff(pitch, time, active, ns)
                   IN IF velocity = 0
                      THEN [same EXCEPT !.offset = offset + 2,
                                        !.notes = off.notes,
                                        !.activeNotes = off.activeNotes,
                                        !.data = <<pitch, velocity>>]
                      ELSE [same EXCEPT !.offset = offset + 2,
                                        !.activeNotes =
                                            handleNoteOn(pitch, velocity, time, active),
                                        !.data = <<pitch, velocity>>]
         [] eventType = 128 ->
              IF offset + 1 >= Len(data) THEN same
              ELSE LET pitch == data[offset + 1]
                       off == handleNoteOff(pitch, time, active, ns)
                   IN [same EXCEPT !.offset = offset + 2,
                                   !.notes = off.notes,
                                   !.activeNotes = off.activeNotes,
                                   !.data = <<pitch, data[offset + 2]>>]
         [] eventType = 176 ->
              IF offset + 1 >= Len(data) THEN same
              ELSE [same EXCEPT !.offset = offset + 2,
                                !.data = <<data[offset + 1], data[offset + 2]>>]
         [] eventType = 192 ->
              IF offset >= Len(data) THEN same
              ELSE [same EXCEPT !.offset = offset + 1,
                                !.data = <<data[offset + 1]>>]
         \* case 0xFF: eventType is statusByte & 0xF0, which is never 0xFF
         [] eventType = 255 ->
              IF offset >= Len(data) THEN same
              ELSE LET metaType == data[offset + 1]
                       metaLength == readVariableLength(data, offset + 1)
                       offset2 == offset + 1 + metaLength.bytes
                   IN IF metaLength.threw THEN [same EXCEPT !.threw = TRUE]
                      ELSE IF metaType = 47
                      THEN [same EXCEPT !.offset = offset2,
                                        !.metaType = metaType]
                      ELSE [same EXCEPT !.offset = offset2 + metaLength.value,
                                        !.metaType = metaType,
                                        !.name =
                                            IF metaType = 3
                                            THEN SubSeq(data, offset2 + 1,
                                                        offset2 + metaLength.value)
                                            ELSE <<>>]
         [] OTHER ->
              IF eventType >= 128 /\ eventType < 240
              THEN [same EXCEPT !.offset = offset + 2]
              ELSE same

\* A status rule without running status: the byte read is the status byte
RunningStatusOf_none(first, runningStatus) == first

\* Lines 130-135: if (statusByte < 0x80) statusByte = runningStatus
RunningStatusOf(first, runningStatus) ==
    IF first < 128 THEN runningStatus ELSE first

\* One iteration of the while loop of parseTrack, entered with
\* st.offset < data.byteLength; st.state becomes "done" at the break and
\* "threw" when readVariableLength throws
parseTrack_iteration(data, st) ==
    LET deltaTime == readVariableLength(data, st.offset)
    IN IF deltaTime.threw THEN [st EXCEPT !.state = "threw"]
       ELSE
       LET offset1 == st.offset + deltaTime.bytes
           time1 == st.currentTime + deltaTime.value
       IN IF offset1 >= Len(data)
          THEN [st EXCEPT !.offset = offset1, !.currentTime = time1,
                          !.state = "done"]
          ELSE
          LET first == data[offset1 + 1]
              statusByte == RunningStatusOf(first, st.runningStatus)
              offset2 == IF first < 128 THEN offset1 ELSE offset1 + 1
              eventType == statusByte - (statusByte % 16)
              channel == statusByte % 16
              sw == parseTrack_switch(data, offset2, eventType, time1,
                                      st.activeNotes, st.notes)
          IN IF sw.threw
             THEN [st EXCEPT !.offset = offset2, !.currentTime = time1,
                             !.runningStatus = statusByte, !.state = "threw"]
             ELSE [offset |-> sw.offset,
                   currentTime |-> time1,
                   runningStatus |-> statusByte,
                   activeNotes |-> sw.activeNotes,
                   notes |-> sw.notes,
                   events |-> Append(st.events,
                                 [time |-> time1, type |-> eventType,
                                  channel |-> channel, data |-> sw.data,
                                  metaType |-> sw.metaType, name |-> sw.name]),
                   state |-> "loop"]

RECURSIVE parseTrack_loop(_, _)
parseTrack_loop(data, st) ==
    IF st.state # "loop" \/ st.offset >= Len(data) THEN st
    ELSE parseTrack_loop(data, parseTrack_iteration(data, st))

\* extractTrackName(events): the name of the first track-name event, or ''
extractTrackName(evs) ==
    IF \E i \in 1..Len(evs) : evs[i].metaType = 3 /\ evs[i].name # <<>>
    THEN evs[CHOOSE i \in 1..Len(evs) :
                /\ evs[i].metaType = 3 /\ evs[i].name # <<>>
                /\ \A j \in 1..(i - 1) :
                      ~(evs[j].metaType = 3 /\ evs[j].name # <<>>)].name
    ELSE <<>>

\* parseTrack(data, ticksPerQuarter): the track returned, or that it threw
parseTrack(data) ==
    LET st == parseTrack_loop(data,
                  [offset |-> 0, currentTime |-> 0, runningStatus |-> 0,
                   activeNotes |-> <<>>, notes |-> <<>>, events |-> <<>>,
                   state |-> "loop"])
    IN [threw |-> st.state = "threw",
        track |-> [events |-> st.events, notes |-> st.notes,
                   name |-> extractTrackName(st.events)]]

\* A header check that accepts every tag
IsHeaderType_any(type) == TRUE

\* if (headerChunk.type !== 'MThd') throw
IsHeaderType(type) == type = TagMThd

\* A track check that decodes a chunk of any tag as a track
IsTrackType_any(type) == TRUE

\* if (trackChunk.type === 'MTrk')
IsTrackType(type) == type = TagMTrk

----------------------------------------------------------------------------
(* The buffers handed to parseMidi *)

U16(n) == <<n \div 256, n % 256>>

U32(n) == <<(n \div 16777216) % 256, (n \div 65536) % 256,
            (n \div 256) % 256, n % 256>>

\* Track bodies: a note with explicit status bytes; a note on channel 1 closed
\* under running status by a velocity-0 Note-On, then an end-of-track meta
\* event; a Note-On cut after its pitch; a delta-time that never terminates;
\* an empty body
TrackBodies ==
    { <<0, 144, 60, 100, 3, 128, 60, 64>>,
      <<0, 145, 60, 100, 3, 60, 0, 0, 255, 47, 0>>,
      <<0, 144, 60>>,
      <<0, 144, 60, 100, 129>>,
      <<>> }

\* 480; 0xE850 (SMPTE); 0
Divisions == {480, 59472, 0}

\* The declared length of the header chunk, whose body has 6 bytes
HeaderLengths == {6, 4}

Chunk(tag, body) == tag \o U32(Len(body)) \o body

ChunkLists ==
    UNION {[1..n -> {Chunk(tag, body) :
                        tag \in {TagMTrk, TagOther}, body \in TrackBodies}]
              : n \in 0..MaxChunks}

RECURSIVE Concat(_)
Concat(ss) == IF ss = <<>> THEN <<>> ELSE Head(ss) \o Concat(Tail(ss))

\* A file, with its last cut bytes missing
MidiFile(tag, headerLength, division, chunks, cut) ==
    LET whole == tag \o U32(headerLength) \o U16(1) \o U16(Len(chunks))
                     \o U16(division) \o Concat(chunks)
    IN SubSeq(whole, 1, Len(whole) - cut)

MidiFiles ==
    {MidiFile(tag, headerLength, division, chunks, cut) :
        tag \in {TagMThd, TagMTrk, TagOther},
        headerLength \in HeaderLengths,
        division \in Divisions,
        chunks \in ChunkLists,
        cut \in {0, 1}}

----------------------------------------------------------------------------
(* parseMidi *)

InitParseMidi ==
    /\ pmBuffer \in {NullBuffer, <<>>} \cup MidiFiles
    /\ pmOffset = 0
    /\ pmHeader = NoHeader
    /\ pmTracks = <<>>
    /\ pmTrackCalls = 0
    /\ pmError = ""
    /\ pmPc = "start"
    /\ IdleFromBuffer
    /\ IdleVlq
    /\ IdleConvert
    /\ IdleParseTrack
    /\ IdleApp
    /\ IdlePlayer

\* Lines 10-36: the buffer check, the header chunk and parseHeader.
\* buffer.byteLength at line 11 throws a TypeError when buffer is null.
parseMidi_Begin ==
    /\ pmPc = "start"
    /\ IF pmBuffer = NullBuffer
       THEN /\ pmPc' = "threw" /\ pmError' = "TypeError"
            /\ UNCHANGED <<pmOffset, pmHeader>>
       ELSE IF Len(pmBuffer) = 0
       THEN /\ pmPc' = "threw" /\ pmError' = "Invalid MIDI buffer"
            /\ UNCHANGED <<pmOffset, pmHeader>>
       ELSE LET headerChunk == readChunk(pmBuffer, 0)
                parsed == parseHeader(headerChunk.data)
            IN IF headerChunk.threw
               THEN /\ pmPc' = "threw" /\ pmError' = "RangeError"
                    /\ UNCHANGED <<pmOffset, pmHeader>>
               ELSE IF ~IsHeaderType(headerChunk.type)
               THEN /\ pmPc' = "threw" /\ pmError' = "Invalid MIDI file"
                    /\ UNCHANGED <<pmOffset, pmHeader>>
               ELSE IF parsed.threw
               THEN /\ pmPc' = "threw" /\ pmError' = "RangeError"
                    /\ pmOffset' = 8 + headerChunk.length
                    /\ UNCHANGED pmHeader
               ELSE /\ pmPc' = "chunks" /\ pmError' = ""
                    /\ pmOffset' = 8 + headerChunk.length
                    /\ pmHeader' = parsed.header
    /\ UNCHANGED <<pmBuffer, pmTracks, pmTrackCalls>>
    /\ UNCHANGED notPmVars

\* A walk that stays where it is
NextChunkOffset_stay(offset, length) == offset

\* Line 49: offset += 8 + trackChunk.length
NextChunkOffset(offset, length) == offset + 8 + length

\* Lines 39-50: one iteration of the chunk walk
parseMidi_ReadChunk ==
    /\ pmPc = "chunks"
    /\ pmOffset < Len(pmBuffer)
    /\ LET trackChunk == readChunk(pmBuffer, pmOffset)
           parsedTrack == parseTrack(trackChunk.data)
       IN IF trackChunk.threw
          THEN /\ pmPc' = "threw" /\ pmError' = "RangeError"
               /\ UNCHANGED <<pmOffset, pmTracks, pmTrackCalls>>
          ELSE IF IsTrackType(trackChunk.type)
          THEN /\ pmTrackCalls' = pmTrackCalls + 1
               /\ IF parsedTrack.threw
                  THEN /\ pmPc' = "threw"
                       /\ pmError' = "Unexpected end of track data"
                       /\ UNCHANGED <<pmOffset, pmTracks>>
                  ELSE /\ pmTracks' = Append(pmTracks, parsedTrack.track)
                       /\ pmOffset' = NextChunkOffset(pmOffset, trackChunk.length)
                       /\ UNCHANGED <<pmPc, pmError>>
          ELSE /\ pmOffset' = NextChunkOffset(pmOffset, trackChunk.length)
               /\ UNCHANGED <<pmPc, pmError, pmTracks, pmTrackCalls>>
    /\ UNCHANGED <<pmBuffer, pmHeader>>
    /\ UNCHANGED notPmVars

\* Lines 52-58: the walk is over, { header, tracks } is returned
parseMidi_Return ==
    /\ pmPc = "chunks"
    /\ pmOffset >= Len(pmBuffer)
    /\ pmPc' = "returned"
    /\ UNCHANGED <<pmBuffer, pmOffset, pmHeader, pmTracks, pmTrackCalls, pmError>>
    /\ UNCHANGED notPmVars

NextParseMidi ==
    \/ parseMidi_Begin
    \/ parseMidi_ReadChunk
    \/ parseMidi_Return

SpecParseMidi == InitParseMidi /\ [][NextParseMidi]_vars

----------------------------------------------------------------------------
(* Properties of parseMidi *)

\* The buffer is null or empty, or its first four bytes are not 'MThd'
RejectedBuffer ==
    IF pmBuffer = NullBuffer THEN TRUE
    ELSE \/ Len(pmBuffer) = 0
         \/ Len(pmBuffer) < 4
         \/ SubSeq(pmBuffer, 1, 4) # TagMThd

\* C10: parseMidi raises and returns no document when the buffer is null or
\* empty or when the first chunk's tag is not "MThd"; no track is decoded
\* before that failure.
C10_ParseMidiRejects ==
    (RejectedBuffer /\ pmPc # "start") =>
        /\ pmPc = "threw"
        /\ pmError # ""
        /\ pmTrackCalls = 0
        /\ pmTracks = <<>>
        /\ pmHeader = NoHeader

\* A whole file whose first tag is not 'MThd' and that holds a track chunk
\* with a note was rejected at the tag
C10_Witness ==
    /\ pmPc = "threw"
    /\ pmError = "Invalid MIDI file"
    /\ pmBuffer # NullBuffer
    /\ Len(pmBuffer) >= 30
    /\ SubSeq(pmBuffer, 15, 18) = TagMTrk
    /\ pmTrackCalls = 0

\* The chunks of a whole file, read off its bytes: a four-byte tag, a
\* four-byte big-endian length and that many bytes of body, one after another
RECURSIVE ChunksFrom(_, _)
ChunksFrom(bytes, at) ==
    IF at + 8 > Len(bytes) THEN <<>>
    ELSE LET length == ((bytes[at + 5] * 256 + bytes[at + 6]) * 256
                            + bytes[at + 7]) * 256 + bytes[at + 8]
         IN <<[tag |-> SubSeq(bytes, at + 1, at + 4),
               body |-> SubSeq(bytes, at + 9, at + 8 + length)]>>
                \o ChunksFrom(bytes, at + 8 + length)

\* The chunks that follow the header chunk
ChunksAfterHeader == Tail(ChunksFrom(pmBuffer, 0))

IsMTrkChunk(chunk) == chunk.tag = TagMTrk

\* C11: a chunk after the header whose tag is not "MTrk" is skipped by its
\* declared length and not rejected: the returned tracks list has exactly one
\* entry per "MTrk" chunk, in file order, however many other chunks lie
\* between them; and a walk that fails fails at a cut chunk or at an "MTrk"
\* chunk, never at a chunk of another tag.
C11_OneTrackPerMTrkChunk ==
    /\ pmPc = "returned" =>
          LET mtrk == SelectSeq(ChunksAfterHeader, IsMTrkChunk)
          IN /\ Len(pmTracks) = Len(mtrk)
             /\ \A i \in 1..Len(mtrk) :
                   pmTracks[i] = parseTrack(mtrk[i].body).track
    /\ (pmPc = "threw" /\ pmHeader # NoHeader) =>
          \/ pmError = "RangeError"
          \/ SubSeq(pmBuffer, pmOffset + 1, pmOffset + 4) = TagMTrk

\* A file whose header is followed by a chunk of another tag and then an
\* "MTrk" chunk with a note was returned with that one track
C11_Witness ==
    /\ pmPc = "returned"
    /\ Len(ChunksAfterHeader) = 2
    /\ ChunksAfterHeader[1].tag = TagOther
    /\ ChunksAfterHeader[1].body # <<>>
    /\ ChunksAfterHeader[2].tag = TagMTrk
    /\ Len(pmTracks) = 1
    /\ Len(pmTracks[1].notes) = 1

\* The two division bytes of the file's header chunk
DivisionUpper == pmBuffer[13]
DivisionLower == pmBuffer[14]

\* C12: when the 16-bit division has its high bit clear the tick rate is the
\* division itself (0x01E0 gives 480); when it is set the tick rate is
\* framesPerSecond x ticksPerFrame, framesPerSecond being the two's-complement
\* negation of the upper byte (0xE8, 0x50 give 24 * 80 = 1920).
C12_DivisionDecoding ==
    pmHeader # NoHeader =>
        IF DivisionUpper < 128
        THEN pmHeader.ticksPerQuarter = DivisionUpper * 256 + DivisionLower
        ELSE pmHeader.ticksPerQuarter = (256 - DivisionUpper) * DivisionLower

\* C13: no document whose tick rate is zero or negative is returned.
C13_TickRatePositive ==
    pmPc = "returned" => pmHeader.ticksPerQuarter > 0

----------------------------------------------------------------------------
(* The primary channel of a track decoded by MidiDocument.fromBuffer *)

IsProgramChange(e) == e.type = 12

\* The number of Note-On events with velocity > 0 on a channel
RealOnCount(ch) ==
    Cardinality({i \in 1..Len(events) :
                    IsRealOn(events[i]) /\ events[i].channel = ch})

\* C20: if the track contains a Program Change, the primary channel is the
\* channel of the first Program Change, wherever the Note-On events lie;
\* otherwise it is the channel with the most Note-On (velocity > 0) events,
\* the lowest such channel when several have the same count.
C20_PrimaryChannel ==
    (fbPc = "done"
        /\ \E i \in 1..Len(events) :
               IsProgramChange(events[i]) \/ IsRealOn(events[i])) =>
        IF \E i \in 1..Len(events) : IsProgramChange(events[i])
        THEN LET first == CHOOSE i \in 1..Len(events) :
                              /\ IsProgramChange(events[i])
                              /\ \A j \in 1..(i - 1) :
                                    ~IsProgramChange(events[j])
             IN trackChannel = events[first].channel
        ELSE /\ \A ch \in Channels : RealOnCount(ch) <= RealOnCount(trackChannel)
             /\ \A ch \in Channels :
                   ch < trackChannel => RealOnCount(ch) < RealOnCount(trackChannel)

----------------------------------------------------------------------------
(* MPCConverter: the document it is built on (mpc-converter.js) *)

MaxNotes == 2

\* Notes of a decoded track
NoteSamples ==
    { [midi |-> 60, time |-> 100, duration |-> 50, velocity |-> 100],
      [midi |-> 62, time |-> 480, duration |-> 240, velocity |-> 127],
      [midi |-> 64, time |-> 145, duration |-> 7, velocity |-> 1],
      [midi |-> 65, time |-> 0, duration |-> 0, velocity |-> 64] }

\* track.notes, in the order the notes were resolved
NoteLists == UNION {[1..n -> NoteSamples] : n \in 0..MaxNotes}

\* The notes of a second track, when the document has one
OtherTrackNotes ==
    { <<>>, <<[midi |-> 67, time |-> 50, duration |-> 1000, velocity |-> 100]>> }

\* this.tracks
TrackLists ==
    {<<[notes |-> ns]>> : ns \in NoteLists}
        \cup {<<[notes |-> ns], [notes |-> os]>> :
                 ns \in NoteLists, os \in OtherTrackNotes}

\* header.ticksPerQuarter of the decoded file
HeaderTickRates == {0, 480, 1920}

\* x || y for a number x
OrElse(x, y) == IF x = 0 THEN y ELSE x

\* new MidiDocument(header, tracks)
MidiDocument(header, tracks) ==
    [ticksPerQuarter |-> OrElse(header.ticksPerQuarter, 480), tracks |-> tracks]

\* The arguments convertTrackToMPC is called with
TrackNumbers == {0, 1, 2}

Ranges == {<<140, 200>>, <<150, 200>>, <<0, 1000>>}

\* An origin other than converter.lowTicks, which is 0 at first
BaseTicks == {7}

----------------------------------------------------------------------------
(* MPCConverter.calcTimeBounds and convertTrackToMPC *)

Min(S) == CHOOSE x \in S : \A y \in S : x <= y

Max(S) == CHOOSE x \in S : \A y \in S : y <= x

\* Every note of every track of the document
AllNotes(doc) ==
    UNION {{doc.tracks[t].notes[i] : i \in 1..Len(doc.tracks[t].notes)} :
              t \in 1..Len(doc.tracks)}

\* Bounds taken from the first track alone
calcTimeBounds_firstTrack(doc) ==
    LET all == {doc.tracks[1].notes[i] : i \in 1..Len(doc.tracks[1].notes)}
    IN [lowTicks  |-> IF all = {} THEN 0 ELSE Min({n.time : n \in all}),
        highTicks |-> IF all = {} THEN 0
                      ELSE Max({n.time + n.duration : n \in all})]

\* Lines 18-39: the result { lowTicks, highTicks }
calcTimeBounds(doc) ==
    LET all == AllNotes(doc)
    IN [lowTicks  |-> IF all = {} THEN 0 ELSE Min({n.time : n \in all}),
        highTicks |-> IF all = {} THEN 0
                      ELSE Max({n.time + n.duration : n \in all})]

\* A range test that also takes a note ending exactly at the range's start
inRange_endInclusive(note, startTime, endTime) ==
    note.time < endTime /\ note.time + note.duration >= startTime

\* Lines 67-73: noteStartTime < endTime && noteEndTime > startTime
inRange(note, startTime, endTime) ==
    note.time < endTime /\ note.time + note.duration > startTime

\* Insertion of a note into a list ordered by start time
RECURSIVE InsertByTime(_, _)
InsertByTime(note, list) ==
    IF list = <<>> THEN <<note>>
    ELSE IF note.time < Head(list).time THEN <<note>> \o list
    ELSE <<Head(list)>> \o InsertByTime(note, Tail(list))

RECURSIVE SortByTime(_)
SortByTime(list) ==
    IF list = <<>> THEN <<>>
    ELSE InsertByTime(Head(list), SortByTime(Tail(list)))

\* MidiTrack.getNotesInRange, midi-utils.js 252-257
getNotesInRange(track, startTime, endTime) ==
    LET Test(note) ==
            LET noteEnd == note.time + note.duration
            IN note.time < endTime /\ noteEnd > startTime
    IN SelectSeq(track.notes, Test)

\* A filter that hands the selected notes on in start-time order
notesInRange_sorted(track, startTime, endTime) ==
    LET Test(note) == inRange(note, startTime, endTime)
    IN SortByTime(SelectSeq(track.notes, Test))

\* Lines 66-74: track.notes.filter(...)
notesInRange(track, startTime, endTime) ==
    LET Test(note) == inRange(note, startTime, endTime)
    IN SelectSeq(track.notes, Test)

\* A rounding that drops the fraction
MathRound_floor(n, d) == n \div d

\* Math.round(n / d) for integers n and d > 0: the nearest integer, a half
\* going up
MathRound(n, d) == (2 * n + d) \div (2 * d)

----------------------------------------------------------------------------
(* Strings are sequences of characters *)

\* (velocity / 127).toString(10), the shortest decimal that reads back as the
\* same double, for the velocities of NoteSamples and OtherTrackNotes
velocityStringRaw(velocity) ==
    CASE velocity = 1 -> <<"0", ".", "0", "0", "7", "8", "7", "4", "0", "1", "5", "7", "4", "8", "0", "3", "1", "4", "9", "6">>
      [] velocity = 64 -> <<"0", ".", "5", "0", "3", "9", "3", "7", "0", "0", "7", "8", "7", "4", "0", "1", "5", "7">>
      [] velocity = 100 -> <<"0", ".", "7", "8", "7", "4", "0", "1", "5", "7", "4", "8", "0", "3", "1", "4", "9", "7">>
      [] velocity = 127 -> <<"1">>

\* String.prototype.substring(from, to)
Substring(str, from, to) ==
    SubSeq(str, from + 1, IF to < Len(str) THEN to ELSE Len(str))

\* A velocity string that is never cut
velocityString_uncut(velocity) == velocityStringRaw(velocity)

\* Lines 102-106: the string is cut to its first 17 characters
velocityString(velocity) ==
    LET raw == velocityStringRaw(velocity)
    IN IF Len(raw) > 17 THEN Substring(raw, 0, 17) ELSE raw

\* Lines 85-117: the event of one selected note. modVal is the number 0.5.
mpcEvent(note, baseTicks, midiPPQ) ==
    LET noteStartTicks == note.time - baseTicks
        noteDurationTicks == note.duration
    IN [type |-> 2,
        time |-> MathRound(960 * noteStartTicks, midiPPQ),
        len |-> MathRound(960 * noteDurationTicks, midiPPQ),
        one |-> note.midi,
        two |-> velocityString(note.velocity),
        three |-> 0,
        mod |-> 0,
        modVal |-> <<"0", ".", "5">>]

\* A conversion that takes a missing track for a track without notes
convertTrackToMPC_noThrow(doc, trackNumber, startTime, endTime, baseTicks) ==
    [threw |-> FALSE, error |-> "",
     pattern |->
        [defined |-> TRUE,
         events |->
            IF trackNumber \notin 1..Len(doc.tracks) THEN <<>>
            ELSE LET selected == notesInRange(doc.tracks[trackNumber],
                                              startTime, endTime)
                 IN [i \in 1..Len(selected) |->
                       mpcEvent(selected[i], baseTicks,
                                OrElse(doc.ticksPerQuarter, 480))]]]

\* Lines 44-133. this.midi.tracks[trackNumber - 1] is undefined unless
\* 1 <= trackNumber <= tracks.length. The pattern's length field is a
\* constant that exportMPCPattern never reads.
convertTrackToMPC(doc, trackNumber, startTime, endTime, baseTicks) ==
    IF trackNumber \notin 1..Len(doc.tracks)
    THEN [threw |-> TRUE, error |-> "Track not found", pattern |-> NoPattern]
    ELSE LET track == doc.tracks[trackNumber]
             midiPPQ == OrElse(doc.ticksPerQuarter, 480)
             selected == notesInRange(track, startTime, endTime)
         IN [threw |-> FALSE, error |-> "",
             pattern |-> [defined |-> TRUE,
                          events |-> [i \in 1..Len(selected) |->
                                        mpcEvent(selected[i], baseTicks, midiPPQ)]]]

----------------------------------------------------------------------------
(* MPCConverter.exportMPCPattern: the text is kept as its opening lines, one
   entry per event object (its ten lines) and its closing lines *)

\* Lines 173-177
staticEvents ==
    << [type |-> 1, time |-> 0, len |-> 0, one |-> 0,
        two |-> <<"0", ".", "0">>, modVal |-> <<"0", ".", "0">>],
       [type |-> 1, time |-> 0, len |-> 0, one |-> 32,
        two |-> <<"0", ".", "0">>, modVal |-> <<"0", ".", "0">>],
       [type |-> 1, time |-> 0, len |-> 0, one |-> 130,
        two |-> <<"0", ".", "7", "8", "7", "4", "0", "1", "5", "5", "6", "9", "6", "8", "6", "8", "9">>,
        modVal |-> <<"0", ".", "0">>] >>

\* Lines 179-190
formatStaticEvent(event, withComma) ==
    [type |-> event.type, time |-> event.time, len |-> event.len,
     one |-> event.one, two |-> event.two, three |-> 0, mod |-> 0,
     modVal |-> event.modVal, comma |-> withComma]

\* Lines 197-215. event['2'] is a string in every event convertTrackToMPC
\* builds, so value2 is that string; no field is missing.
formatDynamicEvent(event, withComma) ==
    LET velocityValue == event.two
        value2 == velocityValue
    IN [type |-> event.type, time |-> event.time, len |-> event.len,
        one |-> event.one, two |-> value2, three |-> event.three,
        mod |-> event.mod, modVal |-> event.modVal, comma |-> withComma]

\* A comma rule that looks at the static events only
needsComma_staticOnly(index, eventCount) == index < Len(staticEvents) - 1

\* Line 193: index < staticEvents.length - 1 || events.length > 0
needsComma(index, eventCount) ==
    index < Len(staticEvents) - 1 \/ eventCount > 0

\* Lines 159-227; '' when there is no pattern object
exportMPCPattern(p) ==
    IF ~p.defined
    THEN [returned |-> TRUE, head |-> <<>>, events |-> <<>>, tail |-> <<>>]
    ELSE LET evs == p.events
         IN [returned |-> TRUE,
             head |-> << "{",
                         "    \"pattern\": {",
                         "        \"length\": 9223372036854775807,",
                         "        \"events\": [" >>,
             events |->
                 [i \in 1..Len(staticEvents) |->
                     formatStaticEvent(staticEvents[i],
                                       needsComma(i - 1, Len(evs)))]
                 \o [i \in 1..Len(evs) |->
                        formatDynamicEvent(evs[i], i - 1 # Len(evs) - 1)],
             tail |-> << "        ]", "    }", "}" >>]

----------------------------------------------------------------------------
(* The converter's life: construction, then calls of its methods *)

\* new MPCConverter(midiDocument), lines 9-13
InitConvert ==
    /\ midi \in {MidiDocument([ticksPerQuarter |-> rate], tracks) :
                    rate \in HeaderTickRates, tracks \in TrackLists}
    /\ lowTicks = 0
    /\ highTicks = 0
    /\ cvArgs = NoArgs
    /\ pattern = NoPattern
    /\ exported = NoExport
    /\ cvError = ""
    /\ rangeNotes = NoRangeNotes
    /\ cvPc = "constructed"
    /\ IdleFromBuffer
    /\ IdleVlq
    /\ IdleParseMidi
    /\ IdleParseTrack
    /\ IdleApp
    /\ IdlePlayer

\* converter.calcTimeBounds()
Convert_calcTimeBounds ==
    /\ cvPc # "idle"
    /\ lowTicks' = calcTimeBounds(midi).lowTicks
    /\ highTicks' = calcTimeBounds(midi).highTicks
    /\ cvPc' = "bounded"
    /\ UNCHANGED <<midi, cvArgs, pattern, exported, cvError, rangeNotes>>
    /\ UNCHANGED notCvVars

\* track.getNotesInRange(startTime, endTime) on a track of the document
Convert_getNotesInRange ==
    /\ cvPc # "idle"
    /\ \E trackNumber \in 1..Len(midi.tracks), range \in Ranges :
          /\ cvArgs' = [trackNumber |-> trackNumber, startTime |-> range[1],
                        endTime |-> range[2], baseTicks |-> 0]
          /\ rangeNotes' =
                [returned |-> TRUE,
                 notes |-> getNotesInRange(midi.tracks[trackNumber],
                                           range[1], range[2])]
    /\ pattern' = NoPattern
    /\ exported' = NoExport
    /\ cvError' = ""
    /\ cvPc' = "filtered"
    /\ UNCHANGED <<midi, lowTicks, highTicks>>
    /\ UNCHANGED notCvVars

\* converter.convertTrackToMPC(trackNumber, startTime, endTime, baseTicks);
\* the callers pass converter.lowTicks or leave the default 0
Convert_convertTrackToMPC ==
    /\ cvPc # "idle"
    /\ \E trackNumber \in TrackNumbers, range \in Ranges,
          baseTicks \in BaseTicks \cup {lowTicks} :
          LET result == convertTrackToMPC(midi, trackNumber, range[1],
                                          range[2], baseTicks)
          IN /\ cvArgs' = [trackNumber |-> trackNumber, startTime |-> range[1],
                           endTime |-> range[2], baseTicks |-> baseTicks]
             /\ pattern' = result.pattern
             /\ cvError' = result.error
             /\ cvPc' = IF result.threw THEN "threw" ELSE "converted"
    /\ exported' = NoExport
    /\ rangeNotes' = NoRangeNotes
    /\ UNCHANGED <<midi, lowTicks, highTicks>>
    /\ UNCHANGED notCvVars

\* MPCConverter.exportMPCPattern(pattern), as createMPCFile calls it
Convert_exportMPCPattern ==
    /\ cvPc # "idle"
    /\ exported' = exportMPCPattern(pattern)
    /\ cvPc' = "exported"
    /\ UNCHANGED <<midi, lowTicks, highTicks, cvArgs, pattern, cvError,
                   rangeNotes>>
    /\ UNCHANGED notCvVars

\* What the visualizer's getSelectedTimes() gives: { start: 0, end: 0 } when
\* nothing is selected (midi-visualizer.js:279-281), else the selection
Selections == {<<0, 0>>, <<140, 200>>}

\* app.js:147-150: the indices of the tracks with notes, in file order
RECURSIVE tracksWithNotes(_, _)
tracksWithNotes(doc, from) ==
    IF from > Len(doc.tracks) THEN <<>>
    ELSE IF Len(doc.tracks[from].notes) > 0
         THEN <<from>> \o tracksWithNotes(doc, from + 1)
         ELSE tracksWithNotes(doc, from + 1)

\* app.js:156-175: the props of the TrackComponents, trackNum = uiIndex + 1
renderTrackList(doc) ==
    LET shown == tracksWithNotes(doc, 1)
    IN [uiIndex \in 1..Len(shown) |->
          [track |-> doc.tracks[shown[uiIndex]], trackNum |-> uiIndex,
           midiTrackIndex |-> shown[uiIndex] - 1]]

\* file-widget.js:279-296: the range of the conversion. A track is shown only
\* when it has notes, so minTime and maxTime are always finite here.
timeRange(track, selected) ==
    IF selected[1] = selected[2] \/ (selected[1] = 0 /\ selected[2] = 0)
    THEN IF Len(track.notes) > 0
         THEN <<Min({track.notes[i].time : i \in 1..Len(track.notes)}),
                Max({track.notes[i].time + track.notes[i].duration :
                        i \in 1..Len(track.notes)})>>
         ELSE selected
    ELSE selected

\* The "+ MPC Pattern" button of a rendered TrackComponent: renderTrackList
\* has run calcTimeBounds (app.js:142-145), then handleConvertToMPC converts and
\* createMPCFile exports (file-widget.js:260-325)
TrackComponent_handleConvertToMPC ==
    /\ cvPc # "idle"
    /\ lowTicks' = calcTimeBounds(midi).lowTicks
    /\ highTicks' = calcTimeBounds(midi).highTicks
    /\ \E uiIndex \in 1..Len(renderTrackList(midi)), selected \in Selections :
          LET props == renderTrackList(midi)[uiIndex]
              range == timeRange(props.track, selected)
              result == convertTrackToMPC(midi, props.trackNum, range[1],
                                          range[2], lowTicks')
          IN /\ cvArgs' = [trackNumber |-> props.trackNum,
                           startTime |-> range[1], endTime |-> range[2],
                           baseTicks |-> lowTicks']
             /\ pattern' = result.pattern
             /\ cvError' = result.error
             /\ exported' = IF result.threw THEN NoExport
                            ELSE exportMPCPattern(result.pattern)
             /\ cvPc' = IF result.threw THEN "alerted" ELSE "downloaded"
    /\ rangeNotes' = NoRangeNotes
    /\ UNCHANGED midi
    /\ UNCHANGED notCvVars

\* Lines 138-154, seen through one entry of the returned array
Convert_convertAllTracksToMPC ==
    /\ cvPc # "idle"
    /\ lowTicks' = calcTimeBounds(midi).lowTicks
    /\ highTicks' = calcTimeBounds(midi).highTicks
    /\ \E trackNumber \in 1..Len(midi.tracks) :
          LET result == convertTrackToMPC(midi, trackNumber, lowTicks',
                                          highTicks', lowTicks')
          IN /\ cvArgs' = [trackNumber |-> trackNumber, startTime |-> lowTicks',
                           endTime |-> highTicks', baseTicks |-> lowTicks']
             /\ pattern' = result.pattern
             /\ cvError' = result.error
    /\ cvPc' = "convertedAll"
    /\ exported' = NoExport
    /\ rangeNotes' = NoRangeNotes
    /\ UNCHANGED midi
    /\ UNCHANGED notCvVars

NextConvert ==
    \/ Convert_calcTimeBounds
    \/ Convert_getNotesInRange
    \/ Convert_convertTrackToMPC
    \/ Convert_exportMPCPattern

SpecConvert == InitConvert /\ [][NextConvert]_vars

\* The converter as the application drives it: rendered track list, buttons,
\* and the conversion of the whole document
NextButtons ==
    \/ Convert_calcTimeBounds
    \/ TrackComponent_handleConvertToMPC
    \/ Convert_convertAllTracksToMPC

SpecButtons == InitConvert /\ [][NextButtons]_vars

----------------------------------------------------------------------------
(* Properties of convertTrackToMPC *)

\* The notes of the track the latest call converted
ConvertedNotes == midi.tracks[cvArgs.trackNumber].notes

\* The note overlaps the range the latest call was given
Overlaps(note) ==
    note.time < cvArgs.endTime /\ note.time + note.duration > cvArgs.startTime

\* t is the integer nearest to n / d, the upper one of two equally near
IsNearest(t, n, d) == 2 * d * t - d <= 2 * n /\ 2 * n < 2 * d * t + d

\* The pitches of the document's notes
DocumentPitches == {n.midi : n \in AllNotes(midi)}

\* How many events of the pattern carry the pitch
EventsOfPitch(p) ==
    Cardinality({i \in 1..Len(pattern.events) : pattern.events[i].one = p})

\* How many notes of the converted track carry the pitch and overlap the range
OverlappingOfPitch(p) ==
    Cardinality({i \in 1..Len(ConvertedNotes) :
                    ConvertedNotes[i].midi = p /\ Overlaps(ConvertedNotes[i])})

\* C14: a note is selected exactly when note.time < rangeEnd and note.time +
\* note.duration > rangeStart (a note [100,150) is in for [140,200) and out for
\* [150,200)), and a selected note is exported with its full duration, never
\* clipped to the range.
C14_RangeFilter ==
    /\ rangeNotes.returned =>
          /\ \A i \in 1..Len(rangeNotes.notes) : Overlaps(rangeNotes.notes[i])
          /\ \A p \in DocumentPitches :
                Cardinality({i \in 1..Len(rangeNotes.notes) :
                                rangeNotes.notes[i].midi = p})
                    = OverlappingOfPitch(p)
    /\ pattern.defined =>
        /\ \A p \in DocumentPitches :
              EventsOfPitch(p) = OverlappingOfPitch(p)
        /\ \A i \in 1..Len(pattern.events) :
              \E j \in 1..Len(ConvertedNotes) :
                 /\ ConvertedNotes[j].midi = pattern.events[i].one
                 /\ IsNearest(pattern.events[i].len,
                              960 * ConvertedNotes[j].duration,
                              midi.ticksPerQuarter)

\* For the range [150,200) the note [100,150) was left out and the note
\* [145,152), which starts before the range, was exported with its whole
\* duration of 7 ticks (14 at 960 per quarter)
C14_Witness ==
    /\ pattern.defined
    /\ cvArgs.startTime = 150
    /\ midi.ticksPerQuarter = 480
    /\ \E j \in 1..Len(ConvertedNotes) :
          ConvertedNotes[j].time = 100 /\ ConvertedNotes[j].duration = 50
    /\ Len(pattern.events) = 1
    /\ pattern.events[1].one = 64
    /\ pattern.events[1].len = 14

\* C15: every event has time = round(960 * (note.time - originTick) / rate)
\* and len = round(960 * note.duration / rate), each rounded on its own; a note
\* at tick 480 of duration 240 at rate 480 and origin 0 gives 960 and 480.
C15_Resampling ==
    pattern.defined =>
        \A i \in 1..Len(pattern.events) :
           \E j \in 1..Len(ConvertedNotes) :
              /\ ConvertedNotes[j].midi = pattern.events[i].one
              /\ IsNearest(pattern.events[i].time,
                           960 * (ConvertedNotes[j].time - cvArgs.baseTicks),
                           midi.ticksPerQuarter)
              /\ IsNearest(pattern.events[i].len,
                           960 * ConvertedNotes[j].duration,
                           midi.ticksPerQuarter)

\* At rate 480 and origin 0 the note at tick 480 of duration 240 came out at
\* 960 and 480
C15_Witness ==
    /\ pattern.defined
    /\ cvArgs.baseTicks = 0
    /\ midi.ticksPerQuarter = 480
    /\ \E i \in 1..Len(pattern.events) :
          /\ pattern.events[i].one = 62
          /\ pattern.events[i].time = 960
          /\ pattern.events[i].len = 480

\* C16: the events are in the order in which the selected notes stand in
\* track.notes, one event per selected note, not ordered by time.
C16_EventOrder ==
    pattern.defined =>
        LET selected == SelectSeq(ConvertedNotes, Overlaps)
        IN /\ Len(pattern.events) = Len(selected)
           /\ \A i \in 1..Len(selected) :
                 pattern.events[i].one = selected[i].midi

\* Two notes whose start times are out of order came out in list order
C16_Witness ==
    /\ pattern.defined
    /\ Len(pattern.events) = 2
    /\ pattern.events[1].one = 62
    /\ pattern.events[2].one = 60
    /\ pattern.events[1].time > pattern.events[2].time

----------------------------------------------------------------------------
(* Properties of exportMPCPattern and of the velocity string *)

\* The exported text is that of the pattern the latest call returned
ExportedPattern == exported.returned /\ pattern.defined

\* C17: for a pattern with n >= 0 note events the export has the length line
\* with the literal 9223372036854775807, then exactly three type-1 preamble
\* events with field "1" = 0, 32, 130 in that order before any type-2 event,
\* then the n note events in list order, with a comma after every event but
\* the last; with n = 0 the third preamble event is the last and has no comma.
C17_ExportLayout ==
    ExportedPattern =>
        LET n == Len(pattern.events)
            out == exported.events
        IN /\ exported.head[3] = "        \"length\": 9223372036854775807,"
           /\ Len(out) = 3 + n
           /\ \A i \in 1..3 : out[i].type = 1
           /\ <<out[1].one, out[2].one, out[3].one>> = <<0, 32, 130>>
           /\ \A i \in 1..n :
                 /\ out[3 + i].type = 2
                 /\ out[3 + i].one = pattern.events[i].one
                 /\ out[3 + i].time = pattern.events[i].time
                 /\ out[3 + i].len = pattern.events[i].len
           /\ \A i \in 1..(3 + n) : out[i].comma <=> (i < 3 + n)

\* A pattern without note events was exported: the third preamble event ends
\* the list
C17_Witness ==
    /\ ExportedPattern
    /\ Len(pattern.events) = 0
    /\ Len(exported.events) = 3
    /\ ~exported.events[3].comma

\* str is the full string, or its first 17 characters when it is longer
IsCutTo17(str, full) ==
    /\ Len(str) <= 17
    /\ Len(str) <= Len(full)
    /\ \A k \in 1..Len(str) : str[k] = full[k]
    /\ Len(str) = 17 \/ Len(str) = Len(full)

\* C18: the velocity of every note event is the decimal string of
\* velocity / 127 cut (not rounded) to at most 17 characters, a prefix of the
\* full string, and the export writes that string as it is.
C18_VelocityString ==
    /\ pattern.defined =>
          \A i \in 1..Len(pattern.events) :
             \E j \in 1..Len(ConvertedNotes) :
                /\ ConvertedNotes[j].midi = pattern.events[i].one
                /\ IsCutTo17(pattern.events[i].two,
                             velocityStringRaw(ConvertedNotes[j].velocity))
    /\ ExportedPattern =>
          \A i \in 1..Len(pattern.events) :
             exported.events[3 + i].two = pattern.events[i].two

\* Velocity 100, whose string 0.7874015748031497 has 18 characters, was
\* exported as the 17 characters 0.787401574803149
C18_Witness ==
    /\ ExportedPattern
    /\ \E i \in 1..Len(pattern.events) :
          /\ pattern.events[i].one = 60
          /\ Len(exported.events[3 + i].two) = 17
          /\ exported.events[3 + i].two[17] = "9"

\* The latest step was a call of convertTrackToMPC
ConvertCalled == cvPc' \in {"converted", "threw"}

\* The call named a track the document does not have
NoSuchTrack == cvArgs'.trackNumber \notin 1..Len(midi.tracks)

\* The call named a track none of whose notes overlaps the range
EmptySelection ==
    /\ cvArgs'.trackNumber \in 1..Len(midi.tracks)
    /\ \A i \in 1..Len(midi.tracks[cvArgs'.trackNumber].notes) :
          LET note == midi.tracks[cvArgs'.trackNumber].notes[i]
          IN ~(note.time < cvArgs'.endTime
                 /\ note.time + note.duration > cvArgs'.startTime)

\* C19: a call of convertTrackToMPC that names a track the document does not
\* have, or whose selection produces no event, raises to the caller and leaves
\* the document as it was: tracks, notes, lowTicks and highTicks are the same,
\* and a later conversion of a valid track gives what it would have given
\* before.
C19_FailedConversionRaises ==
    [][(ConvertCalled /\ (NoSuchTrack \/ EmptySelection)) =>
          /\ cvPc' = "threw"
          /\ cvError' # ""
          /\ midi' = midi
          /\ lowTicks' = lowTicks
          /\ highTicks' = highTicks
          /\ convertTrackToMPC(midi', 1, lowTicks', highTicks', lowTicks')
                = convertTrackToMPC(midi, 1, lowTicks, highTicks, lowTicks)]_vars

\* C19, as the code has it: a call that names a track the document does not
\* have raises; a call whose selection is empty returns a pattern without
\* events; every call, failed or not, leaves tracks, notes, lowTicks and
\* highTicks as they were, so a later conversion of track 1 over
\* [lowTicks, highTicks) gives what it would have given before.
C19_ConversionKeepsDocument ==
    [][ConvertCalled =>
          /\ NoSuchTrack => (cvPc' = "threw" /\ cvError' # "" /\ ~pattern'.defined)
          /\ EmptySelection =>
                (cvPc' = "converted" /\ pattern'.defined /\ pattern'.events = <<>>)
          /\ midi' = midi
          /\ lowTicks' = lowTicks
          /\ highTicks' = highTicks
          /\ convertTrackToMPC(midi', 1, lowTicks', highTicks', lowTicks')
                = convertTrackToMPC(midi, 1, lowTicks, highTicks, lowTicks)]_vars

\* After calcTimeBounds, track 2 of a one-track document with notes was asked
\* for: the call raised and the bounds are still there
C19_Witness ==
    /\ cvPc = "threw"
    /\ cvError = "Track not found"
    /\ cvArgs.trackNumber = 2
    /\ Len(midi.tracks) = 1
    /\ Len(midi.tracks[1].notes) > 0
    /\ highTicks > 0

----------------------------------------------------------------------------
(* parseTrack, one iteration of its while loop at a time *)

MaxTrackEvents == 3

\* The events a track is written from: delta-time bytes, status byte, data
\* bytes. Note-On 60, Note-On 60 with velocity 0, Note-Off 60, Note-On 61,
\* Note-Off 61, end of track, Program Change, Control Change after a two-byte
\* delta-time of 128 ticks
SourceEvents ==
    { [delta |-> <<0>>, status |-> 144, data |-> <<60, 100>>],
      [delta |-> <<3>>, status |-> 144, data |-> <<60, 0>>],
      [delta |-> <<3>>, status |-> 128, data |-> <<60, 64>>],
      [delta |-> <<0>>, status |-> 144, data |-> <<61, 100>>],
      [delta |-> <<3>>, status |-> 128, data |-> <<61, 64>>],
      [delta |-> <<0>>, status |-> 255, data |-> <<47, 0>>],
      [delta |-> <<0>>, status |-> 192, data |-> <<5>>],
      [delta |-> <<129, 0>>, status |-> 176, data |-> <<7, 100>>] }

\* How many bytes are missing at the end of the track
Cuts == {0, 1, 2}

\* The status byte of event i may be left out: running status
MayOmitStatus(evs, i) ==
    /\ i > 1
    /\ evs[i].status < 240
    /\ evs[i - 1].status = evs[i].status

\* The bytes of a track: every status byte written, or left out where the
\* previous event has the same one
RECURSIVE EncodeFrom(_, _, _)
EncodeFrom(evs, i, running) ==
    IF i > Len(evs) THEN <<>>
    ELSE evs[i].delta
            \o (IF running /\ MayOmitStatus(evs, i) THEN <<>>
                ELSE <<evs[i].status>>)
            \o evs[i].data
            \o EncodeFrom(evs, i + 1, running)

EncodeTrack(source) ==
    LET whole == EncodeFrom(source.events, 1, source.running)
    IN SubSeq(whole, 1, Len(whole) - source.cut)

TrackSources ==
    { src \in [events : UNION {[1..n -> SourceEvents] : n \in 1..MaxTrackEvents},
               running : BOOLEAN, cut : Cuts] :
        \* running status only where some status byte can be left out
        src.running => \E i \in 1..Len(src.events) :
                          MayOmitStatus(src.events, i) }

\* Lines 100-107: the locals of parseTrack at its entry
parseTrack_entry ==
    [offset |-> 0, currentTime |-> 0, runningStatus |-> 0,
     activeNotes |-> <<>>, notes |-> <<>>, events |-> <<>>, state |-> "loop"]

InitParseTrack ==
    /\ ptSource \in TrackSources
    /\ ptData = EncodeTrack(ptSource)
    /\ ptSt = parseTrack_entry
    /\ IdleFromBuffer
    /\ IdleVlq
    /\ IdleParseMidi
    /\ IdleConvert
    /\ IdleApp
    /\ IdlePlayer

\* Lines 109-229: one iteration of while (offset < data.byteLength)
ParseTrack_Iteration ==
    /\ ptSt.state = "loop"
    /\ ptSt.offset < Len(ptData)
    /\ ptSt' = parseTrack_iteration(ptData, ptSt)
    /\ UNCHANGED <<ptSource, ptData>>
    /\ UNCHANGED notPtVars

\* Lines 231-235: the loop is over, { events, notes, name } is returned
ParseTrack_Return ==
    /\ pmPc = "idle"
    /\ \/ ptSt.state = "loop" /\ ptSt.offset >= Len(ptData)
       \/ ptSt.state = "done"
    /\ ptSt' = [ptSt EXCEPT !.state = "returned"]
    /\ UNCHANGED <<ptSource, ptData>>
    /\ UNCHANGED notPtVars

NextParseTrack ==
    \/ ParseTrack_Iteration
    \/ ParseTrack_Return

SpecParseTrack == InitParseTrack /\ [][NextParseTrack]_vars

----------------------------------------------------------------------------
(* Properties of parseTrack *)

\* What parseTrack returns for the same events with every status byte written
ExplicitTrack == parseTrack(EncodeTrack([ptSource EXCEPT !.running = FALSE])).track

\* C21: under running status the latched status byte is reused and the byte
\* read is taken as the first data byte: a whole track in which the status
\* bytes of consecutive same-status channel events are left out decodes to the
\* same events and the same notes as the track with every status byte written.
C21_RunningStatus ==
    (ptSt.state = "returned" /\ ptSource.running /\ ptSource.cut = 0) =>
        /\ ptSt.notes = ExplicitTrack.notes
        /\ (\A i \in 1..Len(ptSource.events) : ptSource.events[i].status < 240)
              => ptSt.events = ExplicitTrack.events

\* Note-On 60 and, without a status byte, Note-On 60 with velocity 0 gave the
\* note of 3 ticks
C21_Witness ==
    /\ ptSt.state = "returned"
    /\ ptSource.running
    /\ ptData = <<0, 144, 60, 100, 3, 60, 0>>
    /\ Len(ptSt.notes) = 1
    /\ ptSt.notes[1].duration = 3

\* The source event is the meta event 0x2F, end of track
IsEndOfTrack(e) == e.status = 255 /\ e.data[1] = 47

HasEndOfTrack == \E i \in 1..Len(ptSource.events) : IsEndOfTrack(ptSource.events[i])

\* The place of the first end-of-track event among the source events
EndOfTrackAt ==
    CHOOSE i \in 1..Len(ptSource.events) :
        /\ IsEndOfTrack(ptSource.events[i])
        /\ \A j \in 1..(i - 1) : ~IsEndOfTrack(ptSource.events[j])

\* The source events up to and with the first end-of-track event
ThroughEndOfTrack == SubSeq(ptSource.events, 1, EndOfTrackAt)

\* C22: the meta event 0x2F ends the decode loop: no byte after it is decoded
\* as an event, and no note is opened or closed by the bytes that follow it.
C22_EndOfTrackEndsLoop ==
    (HasEndOfTrack /\ ptSource.cut = 0) =>
        /\ ptSt.offset <= Len(EncodeFrom(ThroughEndOfTrack, 1, ptSource.running))
        /\ Len(ptSt.events) <= EndOfTrackAt
        /\ Len(ptSt.notes) + Len(ptSt.activeNotes)
              <= Cardinality({i \in 1..EndOfTrackAt :
                                 /\ ptSource.events[i].status = 144
                                 /\ ptSource.events[i].data[2] > 0})

\* The last source event
LastSource == ptSource.events[Len(ptSource.events)]

\* The track's bytes end in the middle of a channel-voice event: its status
\* byte is there (written, or latched under running status) and at least one
\* of its data bytes is missing
EndsMidEvent ==
    /\ ptSource.cut >= 1
    /\ LastSource.status < 240
    /\ ptSource.cut <= Len(LastSource.data)
    /\ (ptSource.running /\ MayOmitStatus(ptSource.events, Len(ptSource.events)))
          => ptSource.cut < Len(LastSource.data)

\* What parseTrack returns for the whole events before the last one
PrecedingTrack ==
    parseTrack(EncodeFrom(SubSeq(ptSource.events, 1, Len(ptSource.events) - 1),
                          1, ptSource.running))

\* C23: when the bytes end in the middle of a channel-voice event, parseTrack
\* does not raise: it stops and returns the notes resolved from the whole
\* events before it.
C23_TruncatedEventNoRaise ==
    EndsMidEvent =>
        /\ ptSt.state # "threw"
        /\ ptSt.state = "returned" => ptSt.notes = PrecedingTrack.track.notes

----------------------------------------------------------------------------
(* The two note pairings: MidiDocument.fromBuffer and parseTrack *)

\* The bytes of the events MidiDocument.fromBuffer was given: a one-byte
\* delta-time, the status byte (type and channel), the data bytes
RECURSIVE EventBytes(_)
EventBytes(evs) ==
    IF evs = <<>> THEN <<>>
    ELSE <<Head(evs).deltaTime, Head(evs).type * 16 + Head(evs).channel>>
            \o Head(evs).data \o EventBytes(Tail(evs))

\* Pitch, velocity, start and duration of each note, in order
NoteFacts(ns) ==
    [i \in 1..Len(ns) |->
        <<ns[i].midi, ns[i].velocity, ns[i].time, ns[i].duration>>]

\* C28: for every sequence of Note-On / Note-Off events with channels and
\* delta-times, the notes (pitch, velocity, start, duration, in order) built
\* by parseTrack equal those built by MidiDocument.fromBuffer.
C28_PairingsAgree ==
    (fbPc = "done" /\ \A i \in 1..Len(events) : IsNoteEvent(events[i])) =>
        NoteFacts(parseTrack(EventBytes(events)).track.notes) = NoteFacts(notes)

----------------------------------------------------------------------------
(* parseMidi with the loop of parseTrack taken one iteration at a time *)

\* Lines 40-45: the next chunk is read; an 'MTrk' chunk is handed to parseTrack
Walk_ReadChunk ==
    /\ pmPc = "chunks"
    /\ pmOffset < Len(pmBuffer)
    /\ LET trackChunk == readChunk(pmBuffer, pmOffset)
       IN IF trackChunk.threw
          THEN /\ pmPc' = "threw" /\ pmError' = "RangeError"
               /\ UNCHANGED <<pmOffset, pmTrackCalls, ptData, ptSt>>
          ELSE IF IsTrackType(trackChunk.type)
          THEN /\ pmTrackCalls' = pmTrackCalls + 1
               /\ pmPc' = "track"
               /\ ptData' = trackChunk.data
               /\ ptSt' = parseTrack_entry
               /\ UNCHANGED <<pmOffset, pmError>>
          ELSE /\ pmOffset' = NextChunkOffset(pmOffset, trackChunk.length)
               /\ UNCHANGED <<pmPc, pmError, pmTrackCalls, ptData, ptSt>>
    /\ UNCHANGED <<pmBuffer, pmHeader, pmTracks, ptSource>>
    /\ UNCHANGED notWalkVars

\* Lines 231-235 and 45-49: parseTrack returns, the track is pushed
Walk_TrackReturn ==
    /\ pmPc = "track"
    /\ \/ ptSt.state = "loop" /\ ptSt.offset >= Len(ptData)
       \/ ptSt.state = "done"
    /\ pmTracks' = Append(pmTracks, [events |-> ptSt.events, notes |-> ptSt.notes,
                                     name |-> extractTrackName(ptSt.events)])
    /\ pmOffset' = NextChunkOffset(pmOffset, Len(ptData))
    /\ pmPc' = "chunks"
    /\ ptSt' = NoTrackState
    /\ ptData' = <<>>
    /\ UNCHANGED <<pmBuffer, pmHeader, pmTrackCalls, pmError, ptSource>>
    /\ UNCHANGED notWalkVars

\* Line 269: readVariableLength threw inside parseTrack; parseMidi lets it pass
Walk_TrackThrew ==
    /\ pmPc = "track"
    /\ ptSt.state = "threw"
    /\ pmPc' = "threw"
    /\ pmError' = "Unexpected end of track data"
    /\ UNCHANGED <<pmBuffer, pmOffset, pmHeader, pmTracks, pmTrackCalls>>
    /\ UNCHANGED ptVars
    /\ UNCHANGED notWalkVars

NextWalk ==
    \/ parseMidi_Begin
    \/ Walk_ReadChunk
    \/ ParseTrack_Iteration
    \/ Walk_TrackReturn
    \/ Walk_TrackThrew
    \/ parseMidi_Return

\* parseMidi is synchronous code: a step that can be taken is taken
SpecWalk == InitParseMidi /\ [][NextWalk]_vars /\ WF_vars(NextWalk)

\* C27: parseMidi terminates on every buffer, by returning or by raising: each
\* iteration of the chunk walk that goes on advances the offset by at least 8,
\* and each iteration of parseTrack's loop that goes on consumes at least one
\* byte.
C27_ParseMidiTerminates ==
    /\ <>(pmPc \in {"returned", "threw"})
    /\ [][(pmPc \in {"chunks", "track"} /\ pmPc' = "chunks")
             => pmOffset' >= pmOffset + 8]_vars
    /\ [][(ptSt.state = "loop" /\ ptSt'.state = "loop")
             => ptSt'.offset >= ptSt.offset + 1]_vars

\* A file with a chunk of another tag and an 'MTrk' chunk written with running
\* status was walked to its end and returned
C27_Witness ==
    /\ pmPc = "returned"
    /\ Len(ChunksAfterHeader) = 2
    /\ ChunksAfterHeader[1].tag = TagOther
    /\ ChunksAfterHeader[2].body = <<0, 145, 60, 100, 3, 60, 0, 0, 255, 47, 0>>
    /\ Len(pmTracks) = 1
    /\ pmOffset = Len(pmBuffer)

----------------------------------------------------------------------------
(* Properties of the conversions the application starts *)

\* The TrackComponent whose button started the latest conversion
PressedComponent == renderTrackList(midi)[cvArgs.trackNumber]

\* C25: the track whose notes are exported by "+ MPC Pattern" on a displayed
\* track is the displayed track: the track number passed to convertTrackToMPC
\* resolves to the track object shown in the TrackComponent, also when tracks
\* without notes precede it in the file.
C25_ExportsDisplayedTrack ==
    cvPc = "downloaded" =>
        /\ midi.tracks[cvArgs.trackNumber] = PressedComponent.track
        /\ Len(pattern.events) > 0 =>
              \A i \in 1..Len(pattern.events) :
                 \E j \in 1..Len(PressedComponent.track.notes) :
                    pattern.events[i].one = PressedComponent.track.notes[j].midi

\* The handler was given no selection and took the span of the displayed track
NoSelectionMade ==
    /\ cvPc = "downloaded"
    /\ <<cvArgs.startTime, cvArgs.endTime>>
          = timeRange(PressedComponent.track, <<0, 0>>)

\* C26: with no selection the conversion uses the full note-time span of the
\* track (convertAllTracksToMPC: of the document) and the pattern has exactly
\* one event per note of the track, notes of duration 0 included.
C26_NoSelectionExportsAll ==
    /\ (NoSelectionMade /\ midi.tracks[cvArgs.trackNumber] = PressedComponent.track)
          => Len(pattern.events) = Len(ConvertedNotes)
    /\ cvPc = "convertedAll" => Len(pattern.events) = Len(ConvertedNotes)

----------------------------------------------------------------------------
(* MidiConverterApp: the load of a file (app.js 38-131, file-widget.js 52-139) *)

MaxFiles == 2

MaxSelections == 2

\* What becomes of a selected file: validateFile refuses it; it is read and
\* parsed; it is read and the parser throws; the FileReader fails
FileKinds == {"invalid", "good", "unparsable", "unreadable"}

\* The files of one selection or drop
FileLists == UNION {[1..n -> FileKinds] : n \in 1..MaxFiles}

\* app.js:38-41
handleFileSelect(state) == [state EXCEPT !.isLoading = TRUE, !.error = "null"]

\* app.js:112-118
handleFileError(state, error) ==
    [state EXCEPT !.error = error, !.isLoading = FALSE]

\* app.js:43-110: the document and the converter are the ones of the file
handleFileLoad(state, file) ==
    IF file.kind = "good"
    THEN [state EXCEPT !.midiDocument = file.id, !.converter = file.id,
                       !.isLoading = FALSE, !.error = "null"]
    ELSE [state EXCEPT !.error = "Error loading MIDI file",
                       !.isLoading = FALSE]

\* file-widget.js:55-78 under files.filter (line 129): onError for every file
\* that is refused
RECURSIVE validateFiles(_, _, _)
validateFiles(state, files, i) ==
    IF i > Len(files) THEN state
    ELSE validateFiles(IF files[i] = "invalid"
                       THEN handleFileError(state, "Invalid file type")
                       ELSE state,
                       files, i + 1)

\* new MidiConverterApp(props)
InitApp ==
    /\ appState = NoAppState
    /\ appReaders = {}
    /\ appSelections = 0
    /\ appLast = NoOutcome
    /\ IdleFromBuffer
    /\ IdleVlq
    /\ IdleParseMidi
    /\ IdleConvert
    /\ IdleParseTrack
    /\ IdlePlayer

\* file-widget.js:125-139: a selection or a drop of files
FileWidget_processFiles ==
    /\ appSelections # NULL
    /\ appSelections < MaxSelections
    /\ appSelections' = appSelections + 1
    /\ \E files \in FileLists :
          LET validFiles == {i \in 1..Len(files) : files[i] # "invalid"}
              validated == validateFiles(appState, files, 1)
          IN /\ appLast' = [failed |-> validFiles # 1..Len(files), loaded |-> 0]
             /\ IF validFiles = {}
                THEN /\ appState' = handleFileError(validated,
                                        "No valid MIDI files selected")
                     /\ UNCHANGED appReaders
                ELSE /\ appReaders' = appReaders \cup
                            {[id |-> 10 * appSelections' + i, kind |-> files[i]] :
                                i \in validFiles}
                     /\ appState' = handleFileSelect(validated)
    /\ UNCHANGED notAppVars

\* file-widget.js:85-108: reader.onload, which calls handleFileLoad
FileReader_onload ==
    /\ \E reader \in appReaders :
          /\ reader.kind \in {"good", "unparsable"}
          /\ appReaders' = appReaders \ {reader}
          /\ appState' = handleFileLoad(appState, reader)
          /\ appLast' = [failed |-> reader.kind = "unparsable",
                         loaded |-> IF reader.kind = "good" THEN reader.id ELSE 0]
    /\ UNCHANGED appSelections
    /\ UNCHANGED notAppVars

\* file-widget.js:110-113: reader.onerror
FileReader_onerror ==
    /\ \E reader \in appReaders :
          /\ reader.kind = "unreadable"
          /\ appReaders' = appReaders \ {reader}
          /\ appState' = handleFileError(appState, "Error reading file")
          /\ appLast' = [failed |-> TRUE, loaded |-> 0]
    /\ UNCHANGED appSelections
    /\ UNCHANGED notAppVars

\* app.js:124-133
App_clearMidiData ==
    /\ appSelections # NULL
    /\ appState.midiDocument # 0
    /\ appState' = [appState EXCEPT !.midiDocument = 0, !.converter = 0,
                                    !.error = "null"]
    /\ appLast' = NoOutcome
    /\ UNCHANGED <<appReaders, appSelections>>
    /\ UNCHANGED notAppVars

NextApp ==
    \/ FileWidget_processFiles
    \/ FileReader_onload
    \/ FileReader_onerror
    \/ App_clearMidiData

SpecApp == InitApp /\ [][NextApp]_vars

\* C24: every load attempt that ends in failure leaves isLoading = false and
\* error set to a message; a successful load sets error to null and installs
\* the new document and converter.
C24_LoadFailureState ==
    /\ appLast.failed =>
          appState.isLoading = FALSE /\ appState.error # "null"
    /\ appLast.loaded # 0 =>
          /\ appState.error = "null"
          /\ appState.midiDocument = appLast.loaded
          /\ appState.converter = appLast.loaded

----------------------------------------------------------------------------
(* MidiPlayer: playTrack and stopTrack (midi-player.js 114-225) *)

MaxPlays == 5

\* Lines 204-221, the fields of the player: synth and timeoutId become null,
\* isPlaying false unless keepState
stopTrack_player(p, keepState) ==
    [synth |-> 0, timeoutId |-> 0,
     isPlaying |-> IF keepState THEN p.isPlaying ELSE FALSE]

\* Lines 209-217: this.synth is disposed and this.timeoutId is cleared, when
\* they are not null
stopTrack_tone(p, t) ==
    [synths |-> t.synths \ {p.synth}, timers |-> t.timers \ {p.timeoutId}]

\* new MidiPlayer(props)
InitPlayer ==
    /\ player = NoPlayer
    /\ tone = NoTone
    /\ plSuspended = 0
    /\ plCalls = 0
    /\ plCreated = 0
    /\ plLast = "constructed"
    /\ IdleFromBuffer
    /\ IdleVlq
    /\ IdleParseMidi
    /\ IdleConvert
    /\ IdleParseTrack
    /\ IdleApp

\* Lines 124-165: the Play button (enabled while isPlaying is false, line 319)
\* calls playTrack, which returns early without playable notes, or stops the
\* previous playback and waits at await Tone.start()
Player_playTrack ==
    /\ plCalls # NULL
    /\ plCalls < MaxPlays
    /\ ~player.isPlaying
    /\ plCalls' = plCalls + 1
    /\ plLast' = "playTrack"
    /\ \E playable \in BOOLEAN :
          IF playable
          THEN /\ player' = stopTrack_player(player, TRUE)
               /\ tone' = stopTrack_tone(player, tone)
               /\ plSuspended' = plSuspended + 1
          ELSE UNCHANGED <<player, tone, plSuspended>>
    /\ UNCHANGED plCreated
    /\ UNCHANGED notPlVars

\* Lines 166-201: Tone.start() has resolved; the synth is created, the notes
\* are scheduled, the auto-stop timer is set
Player_playTrack_resume ==
    /\ plSuspended > 0
    /\ plSuspended' = plSuspended - 1
    /\ plCreated' = plCreated + 1
    /\ player' = [synth |-> plCreated', timeoutId |-> plCreated',
                  isPlaying |-> TRUE]
    /\ tone' = [synths |-> tone.synths \cup {plCreated'},
                timers |-> tone.timers \cup {plCreated'}]
    /\ plLast' = "playTrack"
    /\ UNCHANGED plCalls
    /\ UNCHANGED notPlVars

\* Lines 204-221: the Stop button (enabled while isPlaying, line 327)
Player_stopTrack ==
    /\ plCalls # NULL
    /\ player.isPlaying
    /\ player' = stopTrack_player(player, FALSE)
    /\ tone' = stopTrack_tone(player, tone)
    /\ plLast' = "stopTrack"
    /\ UNCHANGED <<plSuspended, plCalls, plCreated>>
    /\ UNCHANGED notPlVars

\* Lines 199-201: a pending auto-stop timer fires and calls stopTrack()
Player_timeout ==
    /\ \E timer \in tone.timers :
          LET fired == [tone EXCEPT !.timers = @ \ {timer}]
          IN /\ player' = stopTrack_player(player, FALSE)
             /\ tone' = stopTrack_tone(player, fired)
    /\ plLast' = "stopTrack"
    /\ UNCHANGED <<plSuspended, plCalls, plCreated>>
    /\ UNCHANGED notPlVars

NextPlayer ==
    \/ Player_playTrack
    \/ Player_playTrack_resume
    \/ Player_stopTrack
    \/ Player_timeout

SpecPlayer == InitPlayer /\ [][NextPlayer]_vars

\* C30: under every interleaving of playTrack and stopTrack, at most one synth
\* is live and at most one auto-stop timer is pending, and after a stopTrack
\* that runs with no playTrack suspended there is no live synth, no pending
\* timer, and isPlaying is false.
C30_OneSynthOneTimer ==
    /\ Cardinality(tone.synths) <= 1
    /\ Cardinality(tone.timers) <= 1
    /\ (plLast = "stopTrack" /\ plSuspended = 0) =>
          /\ tone.synths = {}
          /\ tone.timers = {}
          /\ ~player.isPlaying

====
